---------------------------- MODULE Spec2Model ----------------------------
(***************************************************************************)
(* A model of the NeuroScope signal analysis engine (EEGAnalysis) and of   *)
(* the filter workflow of its application controller (App).                *)
(*                                                                         *)
(* Numbers.  A JavaScript double is modelled by an exact value of the      *)
(* field Q(sqrt 2), the record [a, b, d] standing for (a + b*sqrt2)/d with *)
(* d > 0, or by one of the three non-finite doubles, which have d = 0:     *)
(* NaN = [0,0,0], +Infinity = [1,0,0], -Infinity = [-1,0,0].  Arithmetic   *)
(* follows IEEE 754 for the non-finite cases (0/0 = NaN, x/0 = +-Infinity, *)
(* Infinity - Infinity = NaN, every comparison with NaN is false) and      *)
(* overflows to +-Infinity above MaxFloat.  Rounding and signed zeros are  *)
(* not modelled: finite results are exact.                                 *)
(***************************************************************************)
EXTENDS Integers, Sequences, FiniteSets, TLC

(***************************************************************************)
(* Bounds of the model.                                                    *)
(***************************************************************************)
\* the largest finite double of the model (Number.MAX_VALUE, scaled down)
MaxFloat == 1000
\* the longest signal handed to fft / welchPSD / directPSD
MaxLen == 4
\* the largest analysis window handed to welchPSD
MaxWindow == 5
\* cap on the number of Welch segments the model follows (the loop itself
\* has no cap when numSegments is Infinity)
MaxSegs == 4
MaxBins == 5
MaxSamples == 3
MaxTimers == 2

(***************************************************************************)
(* Doubles.                                                                *)
(***************************************************************************)
Abs(x) == IF x < 0 THEN -x ELSE x

RECURSIVE GCD(_, _)
GCD(x, y) == IF y = 0 THEN x ELSE GCD(y, x % y)

NaN == [a |-> 0, b |-> 0, d |-> 0]
PInf == [a |-> 1, b |-> 0, d |-> 0]
NInf == [a |-> -1, b |-> 0, d |-> 0]

IsNaN(x) == x.d = 0 /\ x.a = 0
isFinite(x) == x.d # 0

\* sign of p - q*sqrt2 for integers p, q > 0, without squaring: for
\* q < p < 2q it is the sign of (p - q)*sqrt2 - (2q - p)
RECURSIVE SignPQ(_, _)
SignPQ(p, q) ==
    CASE p >= 2 * q -> 1
      [] p <= q -> -1
      [] OTHER -> -SignPQ(2 * q - p, p - q)

\* sign of a + b*sqrt2 for integers a, b
SignAB(a, b) ==
    CASE a = 0 /\ b = 0 -> 0
      [] a >= 0 /\ b >= 0 /\ a + b > 0 -> 1
      [] a <= 0 /\ b <= 0 /\ a + b < 0 -> -1
      [] a > 0 /\ b < 0 -> SignPQ(a, -b)
      [] a < 0 /\ b > 0 -> -SignPQ(-a, b)

\* sign of a double that is not NaN: -1, 0 or 1
Sign(x) == IF x.d = 0 THEN x.a ELSE SignAB(x.a, x.b)

\* the finite value (a + b*sqrt2)/d, d > 0, or +-Infinity when its magnitude
\* exceeds MaxFloat
Overflow(a, b, d) ==
    CASE Abs(a) \div d + 2 * (Abs(b) \div d) + 3 <= MaxFloat -> [a |-> a, b |-> b, d |-> d]
      [] OTHER ->
           CASE SignAB(a - MaxFloat * d, b) > 0 -> PInf
             [] SignAB(a + MaxFloat * d, b) < 0 -> NInf
             [] OTHER -> [a |-> a, b |-> b, d |-> d]

\* (a + b*sqrt2)/d, d # 0, in lowest terms with a positive denominator
Norm(a, b, d) ==
    Overflow((IF d < 0 THEN -a ELSE a) \div GCD(GCD(Abs(a), Abs(b)), Abs(d)),
             (IF d < 0 THEN -b ELSE b) \div GCD(GCD(Abs(a), Abs(b)), Abs(d)),
             Abs(d) \div GCD(GCD(Abs(a), Abs(b)), Abs(d)))

\* the double of a ratio of integers n/m, m > 0
Rat(n, m) == Norm(n, 0, m)
Num(n) == Rat(n, 1)
Zero == Num(0)
One == Num(1)
Sqrt2Half == Norm(0, 1, 2)

FNeg(x) == [a |-> -x.a, b |-> -x.b, d |-> x.d]

FAdd(x, y) ==
    CASE IsNaN(x) \/ IsNaN(y) -> NaN
      [] x.d = 0 /\ y.d = 0 /\ x.a # 0 /\ y.a # 0 -> IF x.a = y.a THEN x ELSE NaN
      [] x.d = 0 /\ y.d # 0 /\ x.a # 0 -> x
      [] x.d # 0 /\ y.d = 0 /\ y.a # 0 -> y
      [] x.d # 0 /\ y.d # 0 ->
           Norm(x.a * (y.d \div GCD(x.d, y.d)) + y.a * (x.d \div GCD(x.d, y.d)),
                x.b * (y.d \div GCD(x.d, y.d)) + y.b * (x.d \div GCD(x.d, y.d)),
                x.d * (y.d \div GCD(x.d, y.d)))

FSub(x, y) ==
    CASE IsNaN(x) \/ IsNaN(y) -> NaN
      [] x.d = 0 /\ y.d = 0 /\ x.a # 0 /\ y.a # 0 -> IF x.a # y.a THEN x ELSE NaN
      [] x.d = 0 /\ y.d # 0 /\ x.a # 0 -> x
      [] x.d # 0 /\ y.d = 0 /\ y.a # 0 -> FNeg(y)
      [] x.d # 0 /\ y.d # 0 ->
           Norm(x.a * (y.d \div GCD(x.d, y.d)) - y.a * (x.d \div GCD(x.d, y.d)),
                x.b * (y.d \div GCD(x.d, y.d)) - y.b * (x.d \div GCD(x.d, y.d)),
                x.d * (y.d \div GCD(x.d, y.d)))

FMul(x, y) ==
    CASE IsNaN(x) \/ IsNaN(y) -> NaN
      [] (x.d = 0 \/ y.d = 0) /\ ~IsNaN(x) /\ ~IsNaN(y) ->
           (CASE Sign(x) * Sign(y) = 0 -> NaN
              [] Sign(x) * Sign(y) > 0 -> PInf
              [] Sign(x) * Sign(y) < 0 -> NInf)
      [] x.d # 0 /\ y.d # 0 ->
           Norm(x.a * y.a + 2 * x.b * y.b, x.a * y.b + x.b * y.a, x.d * y.d)

FDiv(x, y) ==
    CASE IsNaN(x) \/ IsNaN(y) -> NaN
      [] x.d = 0 /\ y.d = 0 /\ x.a # 0 /\ y.a # 0 -> NaN
      [] x.d # 0 /\ y.d = 0 /\ y.a # 0 -> Zero
      [] y.d # 0 /\ Sign(y) = 0 /\ ~IsNaN(x) ->
           (CASE Sign(x) = 0 -> NaN
              [] Sign(x) > 0 -> PInf
              [] Sign(x) < 0 -> NInf)
      [] x.d = 0 /\ x.a # 0 /\ y.d # 0 /\ Sign(y) # 0 ->
           IF Sign(x) * Sign(y) > 0 THEN PInf ELSE NInf
      [] x.d # 0 /\ y.d # 0 /\ Sign(y) # 0 /\ y.b = 0 ->
           Norm(x.a * y.d, x.b * y.d, x.d * y.a)
      \* (a + b r)/d / ((c + e r)/f) = (a + b r)(c - e r) f / (d (c*c - 2 e*e))
      [] x.d # 0 /\ y.d # 0 /\ Sign(y) # 0 /\ y.b # 0 ->
           Norm((x.a * y.a - 2 * x.b * y.b) * y.d,
                (x.b * y.a - x.a * y.b) * y.d,
                x.d * (y.a * y.a - 2 * y.b * y.b))

\* the comparisons of JavaScript: false when either side is NaN
FLt(x, y) == ~IsNaN(x) /\ ~IsNaN(y) /\ x # y /\
             (IF x.d = 0 THEN x.a < 0
              ELSE IF y.d = 0 THEN y.a > 0
              ELSE SignAB(x.a * y.d - y.a * x.d, x.b * y.d - y.b * x.d) < 0)
FGt(x, y) == FLt(y, x)
FLe(x, y) == ~IsNaN(x) /\ ~IsNaN(y) /\ (x = y \/ FLt(x, y))
FGe(x, y) == FLe(y, x)

\* Math.min, Math.max: NaN when either argument is NaN
FMin(x, y) == IF IsNaN(x) \/ IsNaN(y) THEN NaN ELSE IF FLt(y, x) THEN y ELSE x
FMax(x, y) == IF IsNaN(x) \/ IsNaN(y) THEN NaN ELSE IF FGt(y, x) THEN y ELSE x

\* Math.floor of a double that is rational or non-finite
FFloor(x) == IF x.d = 0 THEN x ELSE Num(x.a \div x.d)

\* the integer a double holds (only for integral finite doubles)
IntOf(x) == x.a \div x.d

(***************************************************************************)
(* Math.cos and Math.sin of the angle 2*pi*t, for t a rational number of   *)
(* turns whose cosine (sine) lies in Q(sqrt 2): t a multiple of 1/8 turn,  *)
(* or of 1/6 turn for the cosine.  A non-finite argument gives NaN.        *)
(***************************************************************************)
Turn24(t) == ((24 * t.a) \div t.d) % 24
ExactCos(t) == t.d = 0 \/ (t.b = 0 /\ (24 * t.a) % t.d = 0 /\
                           (Turn24(t) % 3 = 0 \/ Turn24(t) % 4 = 0))
ExactSin(t) == t.d = 0 \/ (t.b = 0 /\ (24 * t.a) % t.d = 0 /\
                           (Turn24(t) % 3 = 0 \/ Turn24(t) % 12 = 0))

Cos2Pi(t) ==
    IF t.d = 0 THEN NaN
    ELSE CASE Turn24(t) = 0 -> One
           [] Turn24(t) \in {3, 21} -> Sqrt2Half
           [] Turn24(t) \in {4, 20} -> Rat(1, 2)
           [] Turn24(t) \in {6, 18} -> Zero
           [] Turn24(t) \in {8, 16} -> Rat(-1, 2)
           [] Turn24(t) \in {9, 15} -> FNeg(Sqrt2Half)
           [] Turn24(t) = 12 -> Num(-1)

Sin2Pi(t) ==
    IF t.d = 0 THEN NaN
    ELSE CASE Turn24(t) \in {0, 12} -> Zero
           [] Turn24(t) \in {3, 9} -> Sqrt2Half
           [] Turn24(t) = 6 -> One
           [] Turn24(t) \in {15, 21} -> FNeg(Sqrt2Half)
           [] Turn24(t) = 18 -> Num(-1)

(***************************************************************************)
(* Arrays.  A Float64Array is a sequence; index i of the code is element   *)
(* i + 1.  Reading outside the array gives undefined, which is NaN in      *)
(* arithmetic; writing outside a typed array does nothing.                 *)
(***************************************************************************)
At(arr, i) == IF i \in 0..(Len(arr) - 1) THEN arr[i + 1] ELSE NaN
Put(arr, i, v) == IF i \in 0..(Len(arr) - 1) THEN [arr EXCEPT ![i + 1] = v] ELSE arr
\* Body(x), with x evaluated once, before Body
Strict(Body(_), x) == CHOOSE y \in {Body(v) : v \in {x}} : TRUE

\* new Float64Array(n): n zeros
Zeros(n) == [i \in 1..n |-> Zero]
\* the arrays of length n over the values of S
Arrays(S, n) == [1..n -> S]
ArraysUpTo(S, n) == UNION {Arrays(S, k) : k \in 0..n}

(***************************************************************************)
(* EEGAnalysis.nextPow2                                                    *)
(***************************************************************************)
RECURSIVE nextPow2From(_, _)
nextPow2From(p, n) == IF p < n THEN nextPow2From(p * 2, n) ELSE p

\* the slip "while (p <= n)": a power of two is doubled once too often
nextPow2Strict(n) == nextPow2From(1, n + 1)

nextPow2(n) == nextPow2From(1, n)

(***************************************************************************)
(* EEGAnalysis._fftRecursive: the in-place iterative Cooley-Tukey FFT.     *)
(***************************************************************************)
\* the inner while loop of the bit reversal: <<j, m>> when it ends
RECURSIVE BitRevWhile(_, _)
BitRevWhile(j, m) ==
    IF m >= 1 /\ j >= m THEN BitRevWhile(j - m, m \div 2) ELSE <<j, m>>

Swap(arr, i, j) == [arr EXCEPT ![i + 1] = arr[j + 1], ![j + 1] = arr[i + 1]]

\* one pass of the for loop of the bit reversal: d holds re, im and the running j
BitReversalStep(d, N, i) ==
    [re |-> IF d.j > i THEN Swap(d.re, i, d.j) ELSE d.re,
     im |-> IF d.j > i THEN Swap(d.im, i, d.j) ELSE d.im,
     j |-> BitRevWhile(d.j, N \div 2)[1] + BitRevWhile(d.j, N \div 2)[2]]

\* the for loop of the bit reversal, from index i on
RECURSIVE BitReversal(_, _, _)
BitReversal(d, N, i) ==
    IF i >= N THEN d
    ELSE Strict(LAMBDA next : BitReversal(next, N, i + 1), BitReversalStep(d, N, i))

\* one butterfly: d holds re, im and the running twiddle factor curRe, curIm
ButterflyStep(d, idx1, idx2, wRe, wIm) ==
    LET tRe == FSub(FMul(d.curRe, At(d.re, idx2)), FMul(d.curIm, At(d.im, idx2)))
        tIm == FAdd(FMul(d.curRe, At(d.im, idx2)), FMul(d.curIm, At(d.re, idx2)))
    IN  [re |-> Put(Put(d.re, idx2, FSub(At(d.re, idx1), tRe)),
                    idx1, FAdd(At(d.re, idx1), tRe)),
         im |-> Put(Put(d.im, idx2, FSub(At(d.im, idx1), tIm)),
                    idx1, FAdd(At(d.im, idx1), tIm)),
         curRe |-> FSub(FMul(d.curRe, wRe), FMul(d.curIm, wIm)),
         curIm |-> FAdd(FMul(d.curRe, wIm), FMul(d.curIm, wRe))]

\* the loop over k of one butterfly group starting at i
RECURSIVE ButterflyK(_, _, _, _, _, _)
ButterflyK(d, i, k, halfLen, wRe, wIm) ==
    IF k >= halfLen THEN d
    ELSE Strict(LAMBDA next : ButterflyK(next, i, k + 1, halfLen, wRe, wIm),
                ButterflyStep(d, i + k, i + k + halfLen, wRe, wIm))

\* the loop over the groups i = 0, len, 2*len, ... of one stage
RECURSIVE ButterflyI(_, _, _, _, _, _)
ButterflyI(d, N, len, i, wRe, wIm) ==
    IF i >= N THEN d
    ELSE Strict(LAMBDA next : ButterflyI(next, N, len, i + len, wRe, wIm),
                ButterflyK([re |-> d.re, im |-> d.im, curRe |-> One, curIm |-> Zero],
                           i, 0, len \div 2, wRe, wIm))

\* the slip of a twiddle angle +2*pi/len, which computes the inverse transform
RECURSIVE ButterfliesInverse(_, _, _)
ButterfliesInverse(d, N, len) ==
    IF len > N THEN d
    ELSE Strict(LAMBDA next : ButterfliesInverse(next, N, len * 2),
                Strict(LAMBDA w : ButterflyI(d, N, len, 0, w[1], w[2]),
                       <<Cos2Pi(Rat(1, len)), Sin2Pi(Rat(1, len))>>))

\* the stages len = 2, 4, ..., N; the twiddle angle is -2*pi/len
RECURSIVE Butterflies(_, _, _)
Butterflies(d, N, len) ==
    IF len > N THEN d
    ELSE Strict(LAMBDA next : Butterflies(next, N, len * 2),
                Strict(LAMBDA w : ButterflyI(d, N, len, 0, w[1], w[2]),
                       <<Cos2Pi(Rat(-1, len)), Sin2Pi(Rat(-1, len))>>))

\* re and im are the two buffers fft allocates, both of length N
fftRecursive(re, im, N) ==
    Strict(LAMBDA d : Butterflies(d, N, 2),
           BitReversal([re |-> re, im |-> im, j |-> 0], N, 0))

(***************************************************************************)
(* EEGAnalysis.fft                                                         *)
(***************************************************************************)
\* the buffer fft transforms: N zeros with signal[i] copied to re[i], i < n
ZeroPad(signal, N) == [i \in 1..N |-> IF i <= Len(signal) THEN signal[i] ELSE Zero]

fft(signal) ==
    Strict(LAMBDA r : [re |-> r.re, im |-> r.im, N |-> Len(r.re)],
           fftRecursive(ZeroPad(signal, nextPow2(Len(signal))),
                        Zeros(nextPow2(Len(signal))), nextPow2(Len(signal))))

(***************************************************************************)
(* EEGAnalysis.getWindow                                                   *)
(***************************************************************************)
WindowTypes == {"hanning", "hamming", "blackman", "rectangular"}

\* w[i] of getWindow(size, type); the angle 2*pi*i/(size-1) is i/(size-1)
\* turns, which is 0/0 = NaN for size 1
WindowCoeff(size, type, i) ==
    CASE type = "hanning" ->
           FMul(Rat(1, 2), FSub(One, Cos2Pi(FDiv(Num(i), Num(size - 1)))))
      [] type = "hamming" ->
           FSub(Rat(54, 100), FMul(Rat(46, 100), Cos2Pi(FDiv(Num(i), Num(size - 1)))))
      [] type = "blackman" ->
           FAdd(FSub(Rat(42, 100),
                     FMul(Rat(1, 2), Cos2Pi(FDiv(Num(i), Num(size - 1))))),
                FMul(Rat(8, 100), Cos2Pi(FDiv(Num(2 * i), Num(size - 1)))))
      [] OTHER -> One

getWindow(size, type) == [i \in 1..size |-> WindowCoeff(size, type, i - 1)]

\* the window sizes whose coefficients lie in Q(sqrt 2)
ExactWindow(size) ==
    size <= 1 \/ \A i \in 0..(size - 1) :
                    /\ ExactCos(Rat(i, size - 1))
                    /\ ExactCos(Rat(2 * i, size - 1))

(***************************************************************************)
(* Pieces shared by welchPSD and directPSD.                                *)
(***************************************************************************)
\* re[i]*re[i] + im[i]*im[i]
Mag2(f, i) == FAdd(FMul(At(f.re, i), At(f.re, i)), FMul(At(f.im, i), At(f.im, i)))

\* the length of new Float64Array(N / 2 + 1): N/2 + 1 for even N, and 1 for
\* N = 1, where the length 1.5 is truncated
HalfBins(N) == N \div 2 + 1

\* an array of N zeros whose first size elements are signal[start + i] * window[i]
Windowed(signal, start, window, size, N) ==
    [i \in 1..N |-> IF i <= size THEN FMul(At(signal, start + i - 1), window[i])
                    ELSE Zero]

\* the axis of a loop that stops before the Nyquist bin, 'i < N / 2'
FreqAxisBelowNyquist(sampleRate, N) ==
    [i \in 1..(N \div 2) |-> FMul(Num(i - 1), FDiv(sampleRate, Num(N)))]

\* freqs[i] = i * freqRes with freqRes = sampleRate / N
FreqAxis(sampleRate, N) ==
    [i \in 1..HalfBins(N) |-> FMul(Num(i - 1), FDiv(sampleRate, Num(N)))]

(***************************************************************************)
(* EEGAnalysis.directPSD                                                   *)
(***************************************************************************)
directPSD(signal, sampleRate, windowType) ==
    Strict(LAMBDA f :
               [freqs |-> FreqAxis(sampleRate, f.N),
                psd |-> [i \in 1..HalfBins(f.N) |->
                           FDiv(FMul(Num(2), Mag2(f, i - 1)),
                                FMul(sampleRate, Num(Len(signal))))]],
           fft(Windowed(signal, 0, getWindow(Len(signal), windowType), Len(signal),
                        nextPow2(Len(signal)))))

(***************************************************************************)
(* EEGAnalysis.welchPSD, one step at a time: the head of the function up   *)
(* to the segment loop, one iteration of the loop, and the normalisation.  *)
(***************************************************************************)
\* step = Math.floor(windowSize * (1 - overlap))
WelchStep(windowSize, overlap) == FFloor(FMul(Num(windowSize), FSub(One, overlap)))

\* the slip of counting the segments that start, not those that fit
NumSegmentsStarting(n, windowSize, step) ==
    FAdd(FFloor(FDiv(Num(n - 1), step)), One)

\* numSegments = Math.floor((n - windowSize) / step) + 1
WelchNumSegments(n, windowSize, step) ==
    FAdd(FFloor(FDiv(Num(n - windowSize), step)), One)

\* windowPower: the mean of the squared window coefficients
RECURSIVE SumSquares(_, _)
SumSquares(window, i) ==
    IF i > Len(window) THEN Zero
    ELSE FAdd(FMul(window[i], window[i]), SumSquares(window, i + 1))
WindowPower(window, windowSize) == FDiv(SumSquares(window, 1), Num(windowSize))

\* the slip of leaving the Nyquist bin doubled
NormalizeKeepNyquist(psd, N, numSegments, sampleRate, windowPower, windowSize) ==
    [i \in 1..Len(psd) |->
        LET v == FDiv(FMul(Num(2), psd[i]),
                      FMul(FMul(FMul(numSegments, sampleRate), windowPower),
                           Num(windowSize)))
        IN  IF i = 1 THEN FDiv(v, Num(2)) ELSE v]

\* the normalisation loop, then psd[0] /= 2 and psd[N/2] /= 2; N/2 is no index
\* of the array when N = 1, and that assignment does nothing
Normalize(psd, N, numSegments, sampleRate, windowPower, windowSize) ==
    Strict(LAMBDA scaled :
               Strict(LAMBDA dc :
                          IF N % 2 = 0 /\ N \div 2 < Len(psd)
                          THEN Put(dc, N \div 2, FDiv(At(dc, N \div 2), Num(2)))
                          ELSE dc,
                      Put(scaled, 0, FDiv(At(scaled, 0), Num(2)))),
           [i \in 1..Len(psd) |->
               FDiv(FMul(Num(2), psd[i]),
                    FMul(FMul(FMul(numSegments, sampleRate), windowPower),
                         Num(windowSize)))])

(***************************************************************************)
(* EEGAnalysis.computeBandPowers                                           *)
(***************************************************************************)
bands ==
    [delta |-> [low |-> Rat(1, 2), high |-> Num(4)],
     theta |-> [low |-> Num(4), high |-> Num(8)],
     alpha |-> [low |-> Num(8), high |-> Num(13)],
     beta  |-> [low |-> Num(13), high |-> Num(30)],
     gamma |-> [low |-> Num(30), high |-> Num(100)]]

\* the slip of closing the interval at its upper end
InBandClosed(f, band) == FGe(f, band.low) /\ FLe(f, band.high)

\* f >= band.low && f < band.high
InBand(f, band) == FGe(f, band.low) /\ FLt(f, band.high)

\* the loop over the bins, for one band: its power, and the bins added to it
RECURSIVE BandLoop(_, _, _, _, _, _)
BandLoop(band, freqs, psd, freqRes, i, acc) ==
    IF i >= Len(freqs) THEN acc
    ELSE BandLoop(band, freqs, psd, freqRes, i + 1,
                  IF InBand(At(freqs, i), band)
                  THEN [power |-> FAdd(acc.power, FMul(At(psd, i), freqRes)),
                        bins |-> acc.bins \cup {i}]
                  ELSE acc)

BandFreqRes(freqs) == IF Len(freqs) > 1 THEN FSub(At(freqs, 1), At(freqs, 0)) ELSE One

computeBandPowers(freqs, psd) ==
    [b \in DOMAIN bands |->
        BandLoop(bands[b], freqs, psd, BandFreqRes(freqs), 0,
                 [power |-> Zero, bins |-> {}])]

(***************************************************************************)
(* EEGAnalysis.butterworth and the biquad sections under it.               *)
(***************************************************************************)
\* Array.prototype.reverse
Reverse(arr) == Strict(LAMBDA a : [i \in 1..Len(a) |-> a[Len(a) + 1 - i]], arr)

\* _applyBiquad: the loop from sample i on; the delay line x1, x2, y1, y2
\* holds the two samples before i of the input and of the output
Delayed(arr, i) == IF i < 0 THEN Zero ELSE At(arr, i)

RECURSIVE ApplyBiquadFrom(_, _, _, _)
ApplyBiquadFrom(signal, c, i, out) ==
    IF i >= Len(signal) THEN out
    ELSE Strict(LAMBDA next : ApplyBiquadFrom(signal, c, i + 1, next),
                Put(out, i,
                    FSub(FSub(FAdd(FAdd(FMul(c.b0, At(signal, i)),
                                        FMul(c.b1, Delayed(signal, i - 1))),
                                   FMul(c.b2, Delayed(signal, i - 2))),
                              FMul(c.a1, Delayed(out, i - 1))),
                         FMul(c.a2, Delayed(out, i - 2)))))

applyBiquad(signal, c) ==
    Strict(LAMBDA data :
               Strict(LAMBDA coeffs :
                          ApplyBiquadFrom(data, coeffs, 0, Zeros(Len(data))), c),
           signal)

\* forward pass, reverse, backward pass, reverse
ZeroPhase(data, coeffs) ==
    Strict(LAMBDA c :
               Strict(LAMBDA forward :
                          Strict(LAMBDA backward : Reverse(backward),
                                 applyBiquad(Reverse(forward), c)),
                      applyBiquad(data, c)),
           coeffs)

\* _biquadCoeffs; w0 = 2*pi*freq/sampleRate is freq/sampleRate turns
biquadCoeffs(sampleRate, freq, type, Q) ==
    LET alpha == FDiv(Sin2Pi(FDiv(freq, sampleRate)), FMul(Num(2), Q))
        cosW0 == Cos2Pi(FDiv(freq, sampleRate))
        b1 == IF type = "lowpass" THEN FSub(One, cosW0) ELSE FNeg(FAdd(One, cosW0))
        b0 == IF type = "lowpass" THEN FDiv(FSub(One, cosW0), Num(2))
              ELSE FDiv(FAdd(One, cosW0), Num(2))
        a0 == FAdd(One, alpha)
    IN  [b0 |-> FDiv(b0, a0), b1 |-> FDiv(b1, a0), b2 |-> FDiv(b0, a0),
         a1 |-> FDiv(FMul(Num(-2), cosW0), a0), a2 |-> FDiv(FSub(One, alpha), a0)]

\* Q of a section: 1 / (2*cos(pi*(2*section + 1)/(2*order))), the angle being
\* (2*section + 1)/(4*order) turns
SectionQ(section, order) ==
    FDiv(One, FMul(Num(2), Cos2Pi(Rat(2 * section + 1, 4 * order))))

\* _biquadCascade: the loop over the sections, from one section on
RECURSIVE CascadeFrom(_, _, _, _, _, _)
CascadeFrom(data, sampleRate, freq, type, order, section) ==
    IF section >= (order + 1) \div 2 THEN data
    ELSE Strict(LAMBDA next : CascadeFrom(next, sampleRate, freq, type, order,
                                          section + 1),
                ZeroPhase(data, biquadCoeffs(sampleRate, freq, type,
                                             SectionQ(section, order))))

biquadCascade(signal, sampleRate, freq, type, order) ==
    CascadeFrom(signal, sampleRate, freq, type, order, 0)

\* the coefficients _notchFilter computes
notchCoeffs(sampleRate, freq, bandwidth) ==
    LET alpha == FDiv(Sin2Pi(FDiv(freq, sampleRate)),
                      FMul(Num(2), FDiv(freq, bandwidth)))
        cosW0 == Cos2Pi(FDiv(freq, sampleRate))
        a0 == FAdd(One, alpha)
    IN  [b0 |-> FDiv(One, a0),
         b1 |-> FDiv(FMul(Num(-2), cosW0), a0),
         b2 |-> FDiv(One, a0),
         a1 |-> FDiv(FMul(Num(-2), cosW0), a0),
         a2 |-> FDiv(FSub(One, alpha), a0)]

\* _notchFilter
notchFilter(signal, sampleRate, freq, bandwidth) ==
    ZeroPhase(signal, notchCoeffs(sampleRate, freq, bandwidth))

MinCutoff == Rat(1, 1000000)

\* the slip of leaving a non-finite cutoff as it is
clampFreqKeep(f, nyquist) ==
    IF ~isFinite(f) THEN f
    ELSE FMin(FMax(f, MinCutoff), FMul(nyquist, Rat(999, 1000)))

\* clampFreq of butterworth, with nyquist = sampleRate / 2
clampFreq(f, nyquist) ==
    IF ~isFinite(f) THEN FMin(One, FMul(nyquist, Rat(1, 4)))
    ELSE FMin(FMax(f, MinCutoff), FMul(nyquist, Rat(999, 1000)))

\* low and high of butterworth after clamping and the swap for bandpass
Cutoffs(sampleRate, lowCut, highCut, type) ==
    LET low == clampFreq(lowCut, FDiv(sampleRate, Num(2)))
        high == clampFreq(highCut, FDiv(sampleRate, Num(2)))
    IN  IF type = "bandpass" /\ FGt(low, high)
        THEN [low |-> high, high |-> low]
        ELSE [low |-> low, high |-> high]

\* the filter stages butterworth runs, in order, each with the cutoff handed to it
Stages(low, high, order, type) ==
    CASE type = "bandpass" -> <<[stage |-> "highpass", freq |-> low, order |-> order],
                                [stage |-> "lowpass", freq |-> high, order |-> order]>>
      [] type = "highpass" -> <<[stage |-> "highpass", freq |-> low, order |-> order]>>
      [] type = "lowpass" -> <<[stage |-> "lowpass", freq |-> high, order |-> order]>>
      [] type = "notch" -> <<[stage |-> "notch", freq |-> low, order |-> order]>>
      [] OTHER -> <<>>

RunStage(filtered, sampleRate, st) ==
    IF st.stage = "notch" THEN notchFilter(filtered, sampleRate, st.freq, Num(2))
    ELSE biquadCascade(filtered, sampleRate, st.freq, st.stage, st.order)

RECURSIVE RunStages(_, _, _, _)
RunStages(filtered, sampleRate, stages, k) ==
    IF k > Len(stages) THEN filtered
    ELSE Strict(LAMBDA next : RunStages(next, sampleRate, stages, k + 1),
                RunStage(filtered, sampleRate, stages[k]))

butterworth(signal, sampleRate, lowCut, highCut, order, type) ==
    LET c == Cutoffs(sampleRate, lowCut, highCut, type)
    IN  RunStages(signal, sampleRate, Stages(c.low, c.high, order, type), 1)

\* the stages whose coefficients lie in Q(sqrt 2)
ExactStage(sampleRate, st) ==
    /\ isFinite(FDiv(st.freq, sampleRate))
    /\ ExactCos(FDiv(st.freq, sampleRate)) /\ ExactSin(FDiv(st.freq, sampleRate))
    /\ st.stage # "notch" =>
          \A section \in 0..((st.order + 1) \div 2 - 1) :
              /\ ExactCos(Rat(2 * section + 1, 4 * st.order))
              /\ Turn24(Rat(2 * section + 1, 4 * st.order)) \notin {6, 18}

(***************************************************************************)
(* App.getFilterParams and App.validateFilterParams.  A form is what the   *)
(* filter controls hold, already through parseFloat / parseInt: a number   *)
(* or NaN.                                                                 *)
(***************************************************************************)
getFilterParams(form) ==
    IF form.filterType = "notch"
    THEN [low |-> form.notchFreq, high |-> form.notchFreq, order |-> form.order]
    ELSE [low |-> form.low, high |-> form.high, order |-> form.order]

MinLowCutoff == Rat(5, 100)

\* the toast of the first check that fails, or "valid"
validateFilterParams(params, filterType, sampleRate) ==
    LET nyquist == FDiv(sampleRate, Num(2))
    IN  CASE filterType = "bandpass" /\ FGe(params.low, params.high) ->
               "Low cutoff must be less than high cutoff"
          [] filterType = "bandpass" /\ ~FGe(params.low, params.high)
               /\ FGe(params.high, nyquist) -> "High cutoff must be below Nyquist"
          [] filterType = "bandpass" /\ ~FGe(params.low, params.high)
               /\ ~FGe(params.high, nyquist) /\ FLt(params.low, MinLowCutoff) ->
               "Low cutoff must be at least 0.05 Hz"
          [] filterType = "highpass" /\ FGe(params.low, nyquist) ->
               "Cutoff must be below Nyquist"
          [] filterType = "lowpass" /\ FGe(params.high, nyquist) ->
               "Cutoff must be below Nyquist"
          [] filterType = "notch" /\ FGe(params.low, nyquist) ->
               "Notch frequency must be below Nyquist"
          [] OTHER -> "valid"

ValidationToasts ==
    {"Low cutoff must be less than high cutoff", "High cutoff must be below Nyquist",
     "Low cutoff must be at least 0.05 Hz", "Cutoff must be below Nyquist",
     "Notch frequency must be below Nyquist"}

(***************************************************************************)
(* EEGAnalysis.downsample                                                  *)
(***************************************************************************)
\* Math.ceil of a double that is rational or non-finite
FCeil(x) == FNeg(FFloor(FNeg(x)))

\* the loop over j of one output sample: the running min and max of
\* signal[start .. end - 1]
RECURSIVE BucketMinMax(_, _, _, _)
BucketMinMax(signal, j, end, mm) ==
    IF j >= end THEN mm
    ELSE Strict(LAMBDA next : BucketMinMax(signal, j + 1, end, next),
                [min |-> IF FLt(At(signal, j), mm.min) THEN At(signal, j) ELSE mm.min,
                 max |-> IF FGt(At(signal, j), mm.max) THEN At(signal, j) ELSE mm.max])

\* out[i]: the max of the bucket for even i, its min for odd i
DownsampleAt(signal, factor, i) ==
    Strict(LAMBDA mm : IF i % 2 = 0 THEN mm.max ELSE mm.min,
           BucketMinMax(signal, IntOf(FFloor(FMul(Num(i), factor))),
                        IntOf(FMin(FFloor(FMul(Num(i + 1), factor)), Num(Len(signal)))),
                        [min |-> PInf, max |-> NInf]))

\* the array out that downsample fills when factor > 1
DownsampleOut(signal, factor) ==
    [i \in 1..IntOf(FCeil(FDiv(Num(Len(signal)), factor))) |->
        DownsampleAt(signal, factor, i - 1)]

\* what downsample returns: the signal it was given when factor <= 1
downsample(signal, factor) ==
    IF FLe(factor, One) THEN signal ELSE DownsampleOut(signal, factor)

(***************************************************************************)
(* The arrays of one engine call.  heap is the sequence of the arrays that *)
(* exist, an array's address is its index; hp = [heap, at] is a heap and   *)
(* the address of the array an expression denotes.  new Float64Array(...)  *)
(* appends an array, data.reverse() overwrites the array it is called on.  *)
(***************************************************************************)
HeapNew(hp, contents) ==
    Strict(LAMBDA h : [heap |-> Append(h.heap, contents), at |-> Len(h.heap) + 1], hp)

\* _applyBiquad: out = new Float64Array(n) is filled and returned
HeapApplyBiquad(hp, c) ==
    Strict(LAMBDA h : HeapNew(h, applyBiquad(h.heap[h.at], c)), hp)

\* data.reverse(), in place
HeapReverse(hp) ==
    Strict(LAMBDA h : [heap |-> [h.heap EXCEPT ![h.at] = Reverse(h.heap[h.at])],
                       at |-> h.at],
           hp)

HeapZeroPhase(hp, c) ==
    HeapReverse(HeapApplyBiquad(HeapReverse(HeapApplyBiquad(hp, c)), c))

RECURSIVE HeapCascadeFrom(_, _, _, _, _, _)
HeapCascadeFrom(hp, sampleRate, freq, type, order, section) ==
    IF section >= (order + 1) \div 2 THEN hp
    ELSE Strict(LAMBDA next : HeapCascadeFrom(next, sampleRate, freq, type, order,
                                              section + 1),
                HeapZeroPhase(hp, biquadCoeffs(sampleRate, freq, type,
                                               SectionQ(section, order))))

\* _biquadCascade: data = new Float64Array(signal), then the sections
HeapBiquadCascade(hp, sampleRate, freq, type, order) ==
    Strict(LAMBDA h : HeapCascadeFrom(HeapNew(h, h.heap[h.at]), sampleRate, freq,
                                      type, order, 0),
           hp)

\* _notchFilter: the first pass reads signal itself
HeapNotchFilter(hp, sampleRate, freq, bandwidth) ==
    HeapZeroPhase(hp, notchCoeffs(sampleRate, freq, bandwidth))

HeapRunStage(hp, sampleRate, st) ==
    IF st.stage = "notch" THEN HeapNotchFilter(hp, sampleRate, st.freq, Num(2))
    ELSE HeapBiquadCascade(hp, sampleRate, st.freq, st.stage, st.order)

RECURSIVE HeapRunStages(_, _, _, _)
HeapRunStages(hp, sampleRate, stages, k) ==
    IF k > Len(stages) THEN hp
    ELSE Strict(LAMBDA next : HeapRunStages(next, sampleRate, stages, k + 1),
                HeapRunStage(hp, sampleRate, stages[k]))

\* butterworth: filtered = new Float64Array(signal), then the stages of the
\* type; a type that is none of the four runs no stage
HeapButterworth(hp, sampleRate, lowCut, highCut, order, type) ==
    Strict(LAMBDA h :
               HeapRunStages(HeapNew(h, h.heap[h.at]), sampleRate,
                             Stages(Cutoffs(sampleRate, lowCut, highCut, type).low,
                                    Cutoffs(sampleRate, lowCut, highCut, type).high,
                                    order, type),
                             1),
           hp)

(***************************************************************************)
(* Doubles with rounding.  Where the result of an operation depends on the *)
(* rounding of the doubles (computeStatistics tests std > 0 on a value     *)
(* that is zero but for rounding), a double is modelled as a binary        *)
(* floating-point number m * 2^e with a mantissa of Precision bits,        *)
(* 2^(Precision-1) <= |m| < 2^Precision or m = 0, every operation rounded  *)
(* to nearest, ties to even, as IEEE 754 does with 53 bits.  +-Infinity is *)
(* the mantissa +-1 at the exponent InfExp.                                *)
(***************************************************************************)
Precision == 4

RECURSIVE Pow2(_)
Pow2(k) == IF k <= 0 THEN 1 ELSE 2 * Pow2(k - 1)

InfExp == 1000
TZero == [m |-> 0, e |-> 0]
TPInf == [m |-> 1, e |-> InfExp]
TNInf == [m |-> -1, e |-> InfExp]

\* the number of bits of a natural number
RECURSIVE BitLen(_)
BitLen(M) == IF M = 0 THEN 0 ELSE 1 + BitLen(M \div 2)

\* |M| * 2^E rounded to Precision bits, k low bits being dropped
RoundDrop(M, E, k) ==
    LET q == M \div Pow2(k)
        r == M % Pow2(k)
        up == r > Pow2(k - 1) \/ (r = Pow2(k - 1) /\ q % 2 = 1)
    IN  IF ~up THEN [m |-> q, e |-> E + k]
        ELSE IF q + 1 = Pow2(Precision) THEN [m |-> Pow2(Precision - 1), e |-> E + k + 1]
        ELSE [m |-> q + 1, e |-> E + k]

\* the double nearest to the exact value M * 2^E
RoundME(M, E) ==
    IF M = 0 THEN TZero
    ELSE Strict(LAMBDA r : [m |-> IF M < 0 THEN -r.m ELSE r.m, e |-> r.e],
                IF BitLen(Abs(M)) <= Precision
                THEN [m |-> Abs(M) * Pow2(Precision - BitLen(Abs(M))),
                      e |-> E - (Precision - BitLen(Abs(M)))]
                ELSE RoundDrop(Abs(M), E, BitLen(Abs(M)) - Precision))

TNum(k) == RoundME(k, 0)
TNeg(x) == [m |-> -x.m, e |-> x.e]

TMul(x, y) == RoundME(x.m * y.m, x.e + y.e)

\* x + y: an operand below a quarter of the other's last place does not
\* change the rounded sum
TAdd(x, y) ==
    IF x.m = 0 THEN y
    ELSE IF y.m = 0 THEN x
    ELSE IF x.e - y.e >= Precision + 2 THEN x
    ELSE IF y.e - x.e >= Precision + 2 THEN y
    ELSE IF x.e >= y.e THEN RoundME(x.m * Pow2(x.e - y.e) + y.m, y.e)
    ELSE RoundME(x.m + y.m * Pow2(y.e - x.e), x.e)

TSub(x, y) == TAdd(x, TNeg(y))

\* x / y for y # 0: the quotient of the mantissas with two guard bits and a
\* sticky bit
TDiv(x, y) ==
    IF x.m = 0 THEN TZero
    ELSE LET num == Abs(x.m) * Pow2(Precision + 2)
             q == num \div Abs(y.m)
             sticky == IF num % Abs(y.m) = 0 THEN 0 ELSE 1
             sign == IF (x.m < 0) = (y.m < 0) THEN 1 ELSE -1
         IN  RoundME(sign * (2 * q + sticky), x.e - y.e - Precision - 3)

TLt(x, y) == TSub(x, y).m < 0
TGt(x, y) == TLt(y, x)
TGe(x, y) == ~TLt(x, y)
TMax(x, y) == IF TGt(y, x) THEN y ELSE x

\* Math.sqrt of x >= 0, correctly rounded: the integer square root of the
\* mantissa scaled to 2*Precision + 2 bits or more at an even exponent
TSqrt(x) ==
    IF x.m = 0 THEN TZero
    ELSE LET shift == IF (x.e - (Precision + 3)) % 2 = 0 THEN Precision + 3
                      ELSE Precision + 4
             M == x.m * Pow2(shift)
             s == CHOOSE r \in 0..Pow2(Precision + 3) : r * r <= M /\ M < (r + 1) * (r + 1)
             sticky == IF s * s = M THEN 0 ELSE 1
         IN  RoundME(2 * s + sticky, (x.e - shift) \div 2 - 1)

(***************************************************************************)
(* EEGAnalysis.computeStatistics, in rounded doubles                       *)
(***************************************************************************)
\* the test of the first loop that counts a zero crossing at sample i
ZeroCrossingAt(signal, i) ==
    i > 0 /\ (\/ TGe(At(signal, i), TZero) /\ TLt(At(signal, i - 1), TZero)
              \/ TLt(At(signal, i), TZero) /\ TGe(At(signal, i - 1), TZero))

\* one pass of the first loop on the locals acc = [sum, sumSq, min, max,
\* zeroCrossings]
StatsSumStep(signal, i, acc) ==
    [sum |-> TAdd(acc.sum, At(signal, i)),
     sumSq |-> TAdd(acc.sumSq, TMul(At(signal, i), At(signal, i))),
     min |-> IF TLt(At(signal, i), acc.min) THEN At(signal, i) ELSE acc.min,
     max |-> IF TGt(At(signal, i), acc.max) THEN At(signal, i) ELSE acc.max,
     zeroCrossings |-> IF ZeroCrossingAt(signal, i) THEN acc.zeroCrossings + 1
                       ELSE acc.zeroCrossings]

\* mean, variance, std and rms from the sums
StatsMean(acc, n) == TDiv(acc.sum, TNum(n))
StatsVariance(acc, n) ==
    TSub(TDiv(acc.sumSq, TNum(n)), TMul(StatsMean(acc, n), StatsMean(acc, n)))
StatsStd(acc, n) == TSqrt(TMax(TZero, StatsVariance(acc, n)))

\* one pass of the second loop on mom = [m3, m4]; d * d * d is (d * d) * d
StatsMomentStep(signal, i, mean, mom) ==
    Strict(LAMBDA d :
               [m3 |-> TAdd(mom.m3, TMul(TMul(d, d), d)),
                m4 |-> TAdd(mom.m4, TMul(TMul(TMul(d, d), d), d))],
           TSub(At(signal, i), mean))

\* the object computeStatistics returns
StatsResult(acc, mom, n) ==
    Strict(LAMBDA std :
               [mean |-> StatsMean(acc, n),
                std |-> std,
                variance |-> StatsVariance(acc, n),
                rms |-> TSqrt(TDiv(acc.sumSq, TNum(n))),
                min |-> acc.min,
                max |-> acc.max,
                peakToPeak |-> TSub(acc.max, acc.min),
                skewness |-> IF TGt(std, TZero)
                             THEN TDiv(TDiv(mom.m3, TNum(n)), TMul(TMul(std, std), std))
                             ELSE TZero,
                kurtosis |-> IF TGt(std, TZero)
                             THEN TSub(TDiv(TDiv(mom.m4, TNum(n)),
                                            TMul(TMul(TMul(std, std), std), std)),
                                       TNum(3))
                             ELSE TZero,
                zeroCrossings |-> acc.zeroCrossings],
           StatsStd(acc, n))

(***************************************************************************)
(* EEGAnalysis.averageReference, in rounded doubles                        *)
(***************************************************************************)
\* the loop "avg += channelData[c][s]" from channel c on
RECURSIVE SumAcross(_, _, _, _)
SumAcross(channelData, s, c, avg) ==
    IF c >= Len(channelData) THEN avg
    ELSE Strict(LAMBDA next : SumAcross(channelData, s, c + 1, next),
                TAdd(avg, At(At(channelData, c), s)))

\* the slip of leaving out "avg /= numChannels"
AverageAtSum(channelData, s) == SumAcross(channelData, s, 0, TZero)

\* avg of sample s after "avg /= numChannels"
AverageAt(channelData, s) ==
    TDiv(SumAcross(channelData, s, 0, TZero), TNum(Len(channelData)))

\* result[c][s] -= avg for s < numSamples = channelData[0].length, on
\* channels of one length
averageReference(channelData) ==
    [c \in 1..Len(channelData) |->
        [s \in 1..Len(channelData[c]) |->
            IF s <= Len(channelData[1])
            THEN TSub(channelData[c][s], AverageAt(channelData, s - 1))
            ELSE channelData[c][s]]]

\* the exact value of a rounded double, and the double nearest to an exact
\* rational value
ToExact(t) == IF t.e >= 0 THEN Num(t.m * Pow2(t.e)) ELSE Rat(t.m, Pow2(-t.e))
FromExact(x) == TDiv(TNum(x.a), TNum(x.d))

(***************************************************************************)
(* EEGAnalysis.bipolarMontage.  A label is the sequence of its characters. *)
(***************************************************************************)
bipolarChains ==
    <<
      <<<<"F", "p", "1">>, <<"F", "3">>>>, <<<<"F", "3">>, <<"C", "3">>>>,
      <<<<"C", "3">>, <<"P", "3">>>>, <<<<"P", "3">>, <<"O", "1">>>>,
      <<<<"F", "p", "2">>, <<"F", "4">>>>, <<<<"F", "4">>, <<"C", "4">>>>,
      <<<<"C", "4">>, <<"P", "4">>>>, <<<<"P", "4">>, <<"O", "2">>>>,
      <<<<"F", "p", "1">>, <<"F", "7">>>>, <<<<"F", "7">>, <<"T", "3">>>>,
      <<<<"T", "3">>, <<"T", "5">>>>, <<<<"T", "5">>, <<"O", "1">>>>,
      <<<<"F", "p", "2">>, <<"F", "8">>>>, <<<<"F", "8">>, <<"T", "4">>>>,
      <<<<"T", "4">>, <<"T", "6">>>>, <<<<"T", "6">>, <<"O", "2">>>>,
      <<<<"F", "z">>, <<"C", "z">>>>, <<<<"C", "z">>, <<"P", "z">>>>
    >>

\* String.prototype.toUpperCase on the letters of the labels; digits and
\* upper-case letters are left as they are
LowerCase == <<"a", "b", "c", "d", "e", "f", "g", "h", "i", "j", "k", "l", "m",
               "n", "o", "p", "q", "r", "s", "t", "u", "v", "w", "x", "y", "z">>
UpperCase == <<"A", "B", "C", "D", "E", "F", "G", "H", "I", "J", "K", "L", "M",
               "N", "O", "P", "Q", "R", "S", "T", "U", "V", "W", "X", "Y", "Z">>
UpperChar(c) ==
    IF \E k \in 1..26 : LowerCase[k] = c
    THEN UpperCase[CHOOSE k \in 1..26 : LowerCase[k] = c]
    ELSE c
toUpperCase(label) == [k \in 1..Len(label) |-> UpperChar(label[k])]

\* the slip of keying labelMap by the labels as they are written
labelMapCaseSensitive(channelLabels, key) ==
    IF \E idx \in 1..Len(channelLabels) : channelLabels[idx] = key
    THEN (CHOOSE idx \in 1..Len(channelLabels) :
             /\ channelLabels[idx] = key
             /\ \A later \in (idx + 1)..Len(channelLabels) :
                   channelLabels[later] # key) - 1
    ELSE -1

\* labelMap[key]: the index of the last channel whose label in upper case is
\* key, or -1 for undefined
labelMap(channelLabels, key) ==
    IF \E idx \in 1..Len(channelLabels) : toUpperCase(channelLabels[idx]) = key
    THEN (CHOOSE idx \in 1..Len(channelLabels) :
             /\ toUpperCase(channelLabels[idx]) = key
             /\ \A later \in (idx + 1)..Len(channelLabels) :
                   toUpperCase(channelLabels[later]) # key) - 1
    ELSE -1

\* diff[i] = channelData[idx1][i] - channelData[idx2][i], one element for
\* each sample of channel idx1
Difference(channelData, idx1, idx2) ==
    [i \in 1..Len(At(channelData, idx1)) |->
        TSub(At(At(channelData, idx1), i - 1), At(At(channelData, idx2), i - 1))]

\* `${a}-${b}`
Hyphenated(a, b) == a \o <<"-">> \o b

\* the loop over bipolarChains from pair k on; out = [channelData, channelLabels]
RECURSIVE ChainLoop(_, _, _, _)
ChainLoop(channelData, channelLabels, k, out) ==
    IF k > Len(bipolarChains) THEN out
    ELSE Strict(LAMBDA next : ChainLoop(channelData, channelLabels, k + 1, next),
                LET idx1 == labelMap(channelLabels, toUpperCase(bipolarChains[k][1]))
                    idx2 == labelMap(channelLabels, toUpperCase(bipolarChains[k][2]))
                IN  IF idx1 # -1 /\ idx2 # -1
                    THEN [channelData |-> Append(out.channelData,
                                                 Difference(channelData, idx1, idx2)),
                          channelLabels |-> Append(out.channelLabels,
                                                   Hyphenated(bipolarChains[k][1],
                                                              bipolarChains[k][2]))]
                    ELSE out)

\* the fallback: sequential pairs
SequentialPairs(channelData, channelLabels) ==
    [channelData |-> [i \in 1..(Len(channelData) - 1) |->
                         Difference(channelData, i - 1, i)],
     channelLabels |-> [i \in 1..(Len(channelData) - 1) |->
                           Hyphenated(channelLabels[i], channelLabels[i + 1])]]

bipolarMontage(channelData, channelLabels) ==
    Strict(LAMBDA chained :
               IF Len(chained.channelData) = 0
               THEN SequentialPairs(channelData, channelLabels)
               ELSE chained,
           ChainLoop(channelData, channelLabels, 1,
                     [channelData |-> <<>>, channelLabels |-> <<>>]))

(***************************************************************************)
(* EEGAnalysis.computeSpectrogram.  A bin is a level in decibels,          *)
(* 10 * log10(x): the logarithm is kept as the decade of x, so a level is  *)
(* the pair of multiples of 10 that enclose it, lo <= level < hi, or       *)
(* lo = hi = level when x is a power of 10 (or 0, NaN, Infinity).          *)
(***************************************************************************)
\* step = Math.max(1, Math.floor(windowSize * (1 - overlap)))
SpectroStep(windowSize, overlap) ==
    FMax(One, FFloor(FMul(Num(windowSize), FSub(One, overlap))))

\* numFrames = Math.max(0, Math.floor((n - windowSize) / step) + 1)
SpectroNumFrames(n, windowSize, step) ==
    FMax(Zero, FAdd(FFloor(FDiv(Num(n - windowSize), step)), One))

\* numFreqBins = Math.min(Math.floor(maxFreq / freqRes), N / 2) + 1,
\* freqRes = sampleRate / N
NumFreqBins(sampleRate, N, maxFreq) ==
    FAdd(FMin(FFloor(FDiv(maxFreq, FDiv(sampleRate, Num(N)))), Rat(N, 2)), One)

\* the number of passes of 'for (let i = 0; i < bound; i++)'
LoopCount(bound) ==
    IF IsNaN(bound) \/ FLe(bound, Zero) THEN 0 ELSE IntOf(FCeil(bound))

\* the length of new Float64Array(length) for a length >= 0: the integer part
Float64ArrayLength(length) == IF IsNaN(length) THEN 0 ELSE IntOf(length)

\* freqs after 'for (i < numFreqBins) freqs.push(i * freqRes)'
SpectroFreqs(sampleRate, N, numFreqBins) ==
    [i \in 1..LoopCount(numFreqBins) |-> FMul(Num(i - 1), FDiv(sampleRate, Num(N)))]

\* the decade k of a finite x > 0: 10^k <= x < 10^(k+1); norm is x / 10^k
RECURSIVE Decade(_, _)
Decade(x, k) ==
    IF FLt(x, One) THEN Decade(FMul(x, Num(10)), k - 1)
    ELSE IF FGe(x, Num(10)) THEN Decade(FDiv(x, Num(10)), k + 1)
    ELSE [k |-> k, norm |-> x]

Level(lo, hi) == [lo |-> lo, hi |-> hi]

\* 10 * Math.log10(x) without the offset: -Infinity for a silent bin
DecibelsOfPower(x) ==
    CASE IsNaN(x) \/ FLt(x, Zero) -> Level(NaN, NaN)
      [] x = Zero -> Level(NInf, NInf)
      [] x = PInf -> Level(PInf, PInf)
      [] OTHER -> Strict(LAMBDA dec :
                             Level(Num(10 * dec.k),
                                   IF dec.norm = One THEN Num(10 * dec.k)
                                   ELSE Num(10 * (dec.k + 1))),
                         Decade(x, 0))

\* the level without the offset 1e-20
DecibelsNoOffset(x) == DecibelsOfPower(x)

\* 10 * Math.log10(x + 1e-20) for x = mag2 / N: the sum is 1e-20 for x = 0
\* (Math.log10(1e-20) is -20) and x itself for the x >= 1e-4 of the signals
\* here, which absorb 1e-20
Decibels(x) == IF x = Zero THEN Level(Num(-200), Num(-200)) ELSE DecibelsOfPower(x)

\* power of one frame: power[i] for the i < numFreqBins inside the array
SpectroPower(f, N, numFreqBins) ==
    [i \in 1..Float64ArrayLength(numFreqBins) |->
        Decibels(FDiv(Mag2(f, i - 1), Num(N)))]

\* one pass of the loop over the frames
SpectroFrame(signal, sampleRate, windowSize, N, window, step, numFreqBins, frame) ==
    Strict(LAMBDA f : [time |-> FDiv(FMul(Num(frame), step), sampleRate),
                       power |-> SpectroPower(f, N, numFreqBins)],
           fft(Windowed(signal, frame * IntOf(step), window, windowSize, N)))

(***************************************************************************)
(* EEGAnalysis.computeFrequencyResponse.  The calls it makes are the same  *)
(* at each of its 512 points; the magnitude is followed at the last point, *)
(* the Nyquist frequency, w = pi, where e^-jw = -1 and e^-2jw = 1 and the  *)
(* square root of re*re + im*im is the absolute value of re.               *)
(***************************************************************************)
\* the calls of _cascadeResponse and _notchResponse for one point, in order,
\* each with the cutoff handed to it
ResponseStages(lowCut, highCut, order, type) ==
    CASE type = "bandpass" -> <<[stage |-> "highpass", freq |-> lowCut, order |-> order],
                                [stage |-> "lowpass", freq |-> highCut, order |-> order]>>
      [] type = "highpass" -> <<[stage |-> "highpass", freq |-> lowCut, order |-> order]>>
      [] type = "lowpass" -> <<[stage |-> "lowpass", freq |-> highCut, order |-> order]>>
      [] type = "notch" -> <<[stage |-> "notch", freq |-> lowCut, order |-> order]>>
      [] OTHER -> <<>>

FAbs(x) == IF FLt(x, Zero) THEN FNeg(x) ELSE x

\* the magnitude of b0 + b1*e^-jw + b2*e^-2jw at w = pi
NyquistMag(b0, b1, b2) == FAbs(FAdd(FSub(b0, b1), b2))

\* denMag > 0 ? numMag / denMag : 0, for one section
SectionResponse(c) ==
    IF FGt(NyquistMag(One, c.a1, c.a2), Zero)
    THEN FDiv(NyquistMag(c.b0, c.b1, c.b2), NyquistMag(One, c.a1, c.a2))
    ELSE Zero

\* _cascadeResponse: the loop over the sections, from one section on
RECURSIVE CascadeResponseFrom(_, _, _, _, _, _)
CascadeResponseFrom(totalMag, sampleRate, freq, type, order, section) ==
    IF section >= (order + 1) \div 2 THEN totalMag
    ELSE Strict(LAMBDA next : CascadeResponseFrom(next, sampleRate, freq, type,
                                                  order, section + 1),
                FMul(totalMag,
                     SectionResponse(biquadCoeffs(sampleRate, freq, type,
                                                  SectionQ(section, order)))))

cascadeResponse(sampleRate, freq, type, order) ==
    CascadeResponseFrom(One, sampleRate, freq, type, order, 0)

\* _notchResponse
notchResponse(sampleRate, freq, bandwidth) ==
    SectionResponse(notchCoeffs(sampleRate, freq, bandwidth))

\* totalMag *= ... for one call
ResponseStage(totalMag, sampleRate, st) ==
    FMul(totalMag,
         IF st.stage = "notch" THEN notchResponse(sampleRate, st.freq, Num(2))
         ELSE cascadeResponse(sampleRate, st.freq, st.stage, st.order))

\* magnitude[i] = 20 * Math.log10(Math.max(totalMag * totalMag, 1e-10)) as a
\* level: the floor 1e-10 applies when |totalMag| <= 1e-5
ResponseMagnitude(totalMag) ==
    IF IsNaN(totalMag) THEN Level(NaN, NaN)
    ELSE IF FLe(FAbs(totalMag), Rat(1, 100000)) THEN Level(Num(-200), Num(-200))
    ELSE Strict(LAMBDA l : Level(FMul(Num(2), l.lo), FMul(Num(2), l.hi)),
                DecibelsOfPower(FMul(totalMag, totalMag)))

(***************************************************************************)
(* EEGAnalysis.coherence: the cross spectrum of one segment and the        *)
(* magnitude squared coherence.                                            *)
(***************************************************************************)
\* step = Math.floor(windowSize * 0.5)
CoherenceStep(windowSize) == FFloor(FMul(Num(windowSize), Rat(1, 2)))

\* csdRe[i] += ..., csdIm[i] += ... for the bins of the arrays
CrossSpectrum(csd, fft1, fft2) ==
    [re |-> [i \in 1..Len(csd.re) |->
               FAdd(csd.re[i],
                    FAdd(FMul(At(fft1.re, i - 1), At(fft2.re, i - 1)),
                         FMul(At(fft1.im, i - 1), At(fft2.im, i - 1))))],
     im |-> [i \in 1..Len(csd.im) |->
               FAdd(csd.im[i],
                    FAdd(FMul(FNeg(At(fft1.im, i - 1)), At(fft2.re, i - 1)),
                         FMul(At(fft1.re, i - 1), At(fft2.im, i - 1))))]]

\* one pass of the loop over the segments
CoherenceSegmentStep(csd, signal1, signal2, start, window, windowSize, N) ==
    Strict(LAMBDA f : CrossSpectrum(csd, f[1], f[2]),
           <<fft(Windowed(signal1, start, window, windowSize, N)),
             fft(Windowed(signal2, start, window, windowSize, N))>>)

\* csdRe[i] * csdRe[i] + csdIm[i] * csdIm[i]
CsdMag2(csd, i) ==
    FAdd(FMul(At(csd.re, i), At(csd.re, i)), FMul(At(csd.im, i), At(csd.im, i)))

\* coh[i] = denom > 0 ? csdMag2 / (denom * numSegments * numSegments) : 0
CoherenceAt(psd1, psd2, csd, numSegments, i) ==
    IF FGt(FMul(At(psd1.psd, i), At(psd2.psd, i)), Zero)
    THEN FDiv(CsdMag2(csd, i),
              FMul(FMul(FMul(At(psd1.psd, i), At(psd2.psd, i)), numSegments),
                   numSegments))
    ELSE Zero

\* the loop over the psd1.freqs.length bins
CoherenceBins(psd1, psd2, csd, numSegments) ==
    [i \in 1..Len(psd1.freqs) |-> CoherenceAt(psd1, psd2, csd, numSegments, i - 1)]

(***************************************************************************)
(* State.  Each variable holds the frame of one operation of the engine,   *)
(* idle until the operation is called: its arguments, its locals that the  *)
(* properties read, and what it returned.                                  *)
(***************************************************************************)
VARIABLES
    fftCall,    \* EEGAnalysis.fft: [pc, signal, data, out]
    welch,      \* EEGAnalysis.welchPSD: [pc, its arguments and locals, result]
    bandCall,   \* EEGAnalysis.computeBandPowers: [pc, freqs, psd, out]
    validate,   \* App.validateFilterParams: [pc, form, sampleRate, params, toast]
    butter,     \* EEGAnalysis.butterworth: [pc, its arguments and locals]
    state,      \* App.state: [eegData, filteredData]
    timers,     \* the callbacks applyFilter has handed to setTimeout, in order
    last,       \* the last handler of the App that ran: [op, toast, calls]
    zeroPhase,  \* EEGAnalysis._biquadCascade / _notchFilter: [pc, signal, filter, data]
    alias,      \* the arrays of one engine call: [pc, heap, op, args, result]
    stats,      \* EEGAnalysis.computeStatistics: [pc, signal, its locals, result]
    montage,    \* averageReference / bipolarMontage: [pc, op, its arguments, result]
    spectro,    \* EEGAnalysis.computeSpectrogram: [pc, its arguments and locals, result]
    response,   \* EEGAnalysis.computeFrequencyResponse: [pc, its arguments, cascades]
    coh,        \* EEGAnalysis.coherence: [pc, its arguments and locals, result]
    cascade,    \* EEGAnalysis.butterworth, pass by pass: [pc, its locals, passes]
    bitrev,     \* the bit reversal of _fftRecursive: [pc, N, i, j, data, swaps]
    charts      \* the band power charts of the App: [pc, selection, bandPowers, chart]

vars == <<fftCall, welch, bandCall, validate, butter, state, timers, last,
          zeroPhase, alias, stats, montage, spectro,
          response, coh, cascade, bitrev, charts>>

\* the frame of an operation that is not called
Idle == [pc |-> "idle"]

\* null of JavaScript
Null == [null |-> TRUE]

\* every part of the program outside the active ones is at rest
Quiet(active) ==
    /\ IF "fftCall" \in active THEN TRUE ELSE fftCall = Idle
    /\ IF "welch" \in active THEN TRUE ELSE welch = Idle
    /\ IF "bandCall" \in active THEN TRUE ELSE bandCall = Idle
    /\ IF "validate" \in active THEN TRUE ELSE validate = Idle
    /\ IF "butter" \in active THEN TRUE ELSE butter = Idle
    /\ IF "zeroPhase" \in active THEN TRUE ELSE zeroPhase = Idle
    /\ IF "alias" \in active THEN TRUE ELSE alias = Idle
    /\ IF "stats" \in active THEN TRUE ELSE stats = Idle
    /\ IF "montage" \in active THEN TRUE ELSE montage = Idle
    /\ IF "spectro" \in active THEN TRUE ELSE spectro = Idle
    /\ IF "response" \in active THEN TRUE ELSE response = Idle
    /\ IF "coh" \in active THEN TRUE ELSE coh = Idle
    /\ IF "cascade" \in active THEN TRUE ELSE cascade = Idle
    /\ IF "bitrev" \in active THEN TRUE ELSE bitrev = Idle
    /\ IF "charts" \in active THEN TRUE ELSE charts = Idle
    /\ IF "app" \in active THEN TRUE
       ELSE /\ state = [eegData |-> Null, filteredData |-> Null]
            /\ timers = <<>>
            /\ last = Idle

appVars == <<state, timers, last>>

\* the frames of the operations followed step by step further below
stepFrames == <<response, coh, cascade, bitrev, charts>>

otherFrames == <<zeroPhase, alias, stats, montage, spectro, stepFrames>>

(***************************************************************************)
(* Inputs of the transform: every signal of up to MaxLen samples over      *)
(* {-1, 0, 1}, and the pure sinusoids cos / sin(2*pi*k*i/N), 0 < k < N/2,  *)
(* of N = 4 and N = 8 samples.                                             *)
(***************************************************************************)
SampleValues == {Num(-1), Zero, One}
Cosine(N, k) == [i \in 1..N |-> Cos2Pi(Rat(k * (i - 1), N))]
Sine(N, k) == [i \in 1..N |-> Sin2Pi(Rat(k * (i - 1), N))]
SinusoidBins == {<<4, 1>>, <<8, 1>>, <<8, 2>>, <<8, 3>>}
Sinusoids == {Cosine(p[1], p[2]) : p \in SinusoidBins} \cup
             {Sine(p[1], p[2]) : p \in SinusoidBins}
FftSignals == ArraysUpTo(SampleValues, MaxLen) \cup Sinusoids

FftInit ==
    /\ \E signal \in FftSignals : fftCall = [pc |-> "call", signal |-> signal]
    /\ Quiet({"fftCall"})

\* fft(signal): data is the buffer handed to _fftRecursive, out what fft returns
Fft ==
    /\ fftCall.pc = "call"
    /\ fftCall' = [pc |-> "done", signal |-> fftCall.signal,
                   data |-> ZeroPad(fftCall.signal, nextPow2(Len(fftCall.signal))),
                   out |-> fft(fftCall.signal)]
    /\ UNCHANGED <<welch, bandCall, validate, butter, appVars, otherFrames>>

SpecFft == FftInit /\ [][Fft]_vars


(***************************************************************************)
(* Inputs of welchPSD: the signals of up to MaxLen samples over {-1, 1}    *)
(* and the silent ones, a window of up to MaxWindow samples, an overlap of *)
(* 0 or 1/2 (the application passes 1/2), every window type.               *)
(***************************************************************************)
WelchSignals ==
    ArraysUpTo({Num(-1), One}, MaxLen) \cup {Zeros(n) : n \in 1..MaxLen}
SampleRates == {Num(8)}
Overlaps == {Zero, Rat(1, 2), One}
WindowSizes == {size \in 1..MaxWindow : ExactWindow(size)}

WelchInit ==
    /\ \E signal \in WelchSignals, sampleRate \in SampleRates,
          windowSize \in WindowSizes, overlap \in Overlaps, windowType \in WindowTypes :
          welch = [pc |-> "call", signal |-> signal, sampleRate |-> sampleRate,
                   windowSize |-> windowSize, overlap |-> overlap,
                   windowType |-> windowType]
    /\ Quiet({"welch"})

\* welchPSD up to the segment loop: the fallback to directPSD returns at once
WelchPSD ==
    /\ welch.pc = "call"
    /\ LET n == Len(welch.signal)
           step == WelchStep(welch.windowSize, welch.overlap)
           numSegments == WelchNumSegments(n, welch.windowSize, step)
           N == nextPow2(welch.windowSize)
           window == getWindow(welch.windowSize, welch.windowType)
           args == [signal |-> welch.signal, sampleRate |-> welch.sampleRate,
                    windowSize |-> welch.windowSize, overlap |-> welch.overlap,
                    windowType |-> welch.windowType,
                    step |-> step, numSegments |-> numSegments]
       IN  IF FLt(numSegments, One)
           THEN welch' = args @@
                    [pc |-> "done", fallback |-> TRUE, seg |-> 0,
                     result |-> directPSD(welch.signal, welch.sampleRate,
                                          welch.windowType)]
           ELSE welch' = args @@
                    [pc |-> "loop", fallback |-> FALSE, seg |-> 0, N |-> N,
                     window |-> window,
                     windowPower |-> WindowPower(window, welch.windowSize),
                     psd |-> Zeros(HalfBins(N))]
    /\ UNCHANGED <<fftCall, bandCall, validate, butter, appVars, otherFrames>>

\* one iteration of "for (seg = 0; seg < numSegments; seg++)"; the model follows
\* at most MaxSegs iterations
WelchSegment ==
    /\ welch.pc = "loop"
    /\ FLt(Num(welch.seg), welch.numSegments)
    /\ welch.seg < MaxSegs
    /\ welch' = [welch EXCEPT
                   !.seg = welch.seg + 1,
                   !.psd = Strict(LAMBDA f : [i \in 1..Len(welch.psd) |->
                                                FAdd(welch.psd[i], Mag2(f, i - 1))],
                                  fft(Windowed(welch.signal,
                                               welch.seg * IntOf(welch.step),
                                               welch.window, welch.windowSize,
                                               welch.N)))]
    /\ UNCHANGED <<fftCall, bandCall, validate, butter, appVars, otherFrames>>

\* the loop has ended: normalise, build the frequency axis, return
WelchReturn ==
    /\ welch.pc = "loop"
    /\ ~FLt(Num(welch.seg), welch.numSegments)
    /\ welch' = [pc |-> "done",
                 result |-> [freqs |-> FreqAxis(welch.sampleRate, welch.N),
                             psd |-> Normalize(welch.psd, welch.N, welch.numSegments,
                                               welch.sampleRate, welch.windowPower,
                                               welch.windowSize)]] @@ welch
    /\ UNCHANGED <<fftCall, bandCall, validate, butter, appVars, otherFrames>>

SpecWelch == WelchInit /\ [][WelchPSD \/ WelchSegment \/ WelchReturn]_vars

(***************************************************************************)
(* Inputs of computeBandPowers: a frequency axis i * freqRes of up to      *)
(* MaxBins bins, with the resolutions that put bins on the band limits,    *)
(* and a non-negative psd of the same length.                              *)
(***************************************************************************)
BandResolutions == {Rat(1, 4), Num(4), Num(13), Num(25), Num(30)}
PsdValues == {Zero, One, Num(2)}

BandInit ==
    /\ \E n \in 0..MaxBins, freqRes \in BandResolutions :
          \E psd \in Arrays(PsdValues, n) :
             bandCall = [pc |-> "call",
                         freqs |-> [i \in 1..n |-> FMul(Num(i - 1), freqRes)],
                         psd |-> psd]
    /\ Quiet({"bandCall"})

ComputeBandPowers ==
    /\ bandCall.pc = "call"
    /\ bandCall' = [pc |-> "done", freqs |-> bandCall.freqs, psd |-> bandCall.psd,
                    out |-> computeBandPowers(bandCall.freqs, bandCall.psd)]
    /\ UNCHANGED <<fftCall, welch, validate, butter, appVars, otherFrames>>

SpecBands == BandInit /\ [][ComputeBandPowers]_vars

(***************************************************************************)
(* Inputs of validateFilterParams: the four filter types and, in each      *)
(* field of the form, NaN (an empty field) or a number below, at or above  *)
(* the limits the checks compare with, at a sample rate of 8 Hz.           *)
(***************************************************************************)
FilterTypes == {"bandpass", "highpass", "lowpass", "notch"}
FieldValues ==
    {NaN, PInf, Zero, Rat(1, 100), Rat(5, 100), One, Num(2), Num(4), Num(5)}
NotchValues == {NaN, Num(2), Num(4)}

ValidateInit ==
    /\ \E filterType \in FilterTypes, low \in FieldValues, high \in FieldValues,
          notchFreq \in NotchValues, sampleRate \in SampleRates :
          validate = [pc |-> "call", sampleRate |-> sampleRate,
                      form |-> [filterType |-> filterType, low |-> low, high |-> high,
                                order |-> 2, notchFreq |-> notchFreq]]
    /\ Quiet({"validate"})

\* validateFilterParams(getFilterParams(filterType), filterType, sampleRate)
ValidateFilterParams ==
    /\ validate.pc = "call"
    /\ validate' = [pc |-> "done", sampleRate |-> validate.sampleRate,
                    form |-> validate.form,
                    params |-> getFilterParams(validate.form),
                    toast |-> validateFilterParams(getFilterParams(validate.form),
                                                   validate.form.filterType,
                                                   validate.sampleRate)]
    /\ UNCHANGED <<fftCall, welch, bandCall, butter, appVars, otherFrames>>

SpecValidate == ValidateInit /\ [][ValidateFilterParams]_vars

(***************************************************************************)
(* butterworth in steps: the clamping of the cutoffs, then one filter      *)
(* stage at a time.  The model follows a stage only when its coefficients  *)
(* lie in Q(sqrt 2).                                                       *)
(***************************************************************************)
CutoffValues ==
    {NaN, PInf, NInf, Num(-1), Zero, One, Num(2), Num(3), Num(4), Num(5)}
ButterSampleRates == {Num(2), Num(8)}
ButterOrders == {2, 4}

ButterInit ==
    /\ \E sampleRate \in ButterSampleRates, lowCut \in CutoffValues,
          highCut \in CutoffValues, order \in ButterOrders, type \in FilterTypes :
          butter = [pc |-> "call", signal |-> <<One, One, One>>,
                    sampleRate |-> sampleRate, lowCut |-> lowCut, highCut |-> highCut,
                    order |-> order, type |-> type]
    /\ Quiet({"butter"})

\* the copy of the signal, clampFreq of both cutoffs, the swap for bandpass
ButterworthClamp ==
    /\ butter.pc = "call"
    /\ LET c == Cutoffs(butter.sampleRate, butter.lowCut, butter.highCut, butter.type)
       IN  butter' = [pc |-> "stages", low |-> c.low, high |-> c.high,
                      stages |-> Stages(c.low, c.high, butter.order, butter.type),
                      next |-> 1, filtered |-> butter.signal] @@ butter
    /\ UNCHANGED <<fftCall, welch, bandCall, validate, appVars, otherFrames>>

\* one call of _biquadCascade or _notchFilter
ButterworthStage ==
    /\ butter.pc = "stages"
    /\ butter.next <= Len(butter.stages)
    /\ ExactStage(butter.sampleRate, butter.stages[butter.next])
    /\ butter' = [butter EXCEPT
                    !.filtered = RunStage(butter.filtered, butter.sampleRate,
                                          butter.stages[butter.next]),
                    !.next = butter.next + 1]
    /\ UNCHANGED <<fftCall, welch, bandCall, validate, appVars, otherFrames>>

ButterworthReturn ==
    /\ butter.pc = "stages"
    /\ butter.next > Len(butter.stages)
    /\ butter' = [butter EXCEPT !.pc = "done"]
    /\ UNCHANGED <<fftCall, welch, bandCall, validate, appVars, otherFrames>>

SpecButter ==
    ButterInit /\ [][ButterworthClamp \/ ButterworthStage \/ ButterworthReturn]_vars

(***************************************************************************)
(* The App: a recording is loaded or dropped, and the filter panel is      *)
(* used.  A recording has a sample rate of 8 or 4 Hz, one or two channels  *)
(* of MaxSamples samples each, all 1 or all MaxFloat, the largest finite   *)
(* value of the model.  The filter form holds cutoffs that pass and        *)
(* cutoffs that fail the validation.                                       *)
(***************************************************************************)
Channel(v) == [i \in 1..MaxSamples |-> v]
Unit == Channel(One)
Loud == Channel(Num(MaxFloat))
Recordings ==
    {[sampleRate |-> Num(8), channelData |-> chs] :
        chs \in {<<Unit>>, <<Loud>>, <<Unit, Loud>>}}
    \cup {[sampleRate |-> Num(4), channelData |-> <<Unit>>]}

Form(filterType, low, high, notchFreq) ==
    [filterType |-> filterType, low |-> low, high |-> high, order |-> 2,
     notchFreq |-> notchFreq]
Forms ==
    {Form("bandpass", Num(2), One, Num(2)), Form("highpass", Num(4), One, Num(2)),
     Form("lowpass", One, One, Num(2)), Form("lowpass", One, Num(2), Num(2)),
     Form("notch", One, One, Num(2))}

AppInit ==
    /\ state = [eegData |-> Null, filteredData |-> Null]
    /\ timers = <<>>
    /\ last = Idle
    /\ Quiet({"app"})

engineFrames == <<fftCall, welch, bandCall, validate, butter, otherFrames>>

\* loadFile from the moment the file is parsed: the recording is stored
LoadFile ==
    /\ \E eegData \in Recordings :
          state' = [eegData |-> eegData, filteredData |-> Null]
    /\ last' = [op |-> "loadFile", toast |-> "Loaded", calls |-> 0]
    /\ UNCHANGED <<timers, engineFrames>>

ResetToUpload ==
    /\ state' = [eegData |-> Null, filteredData |-> Null]
    /\ last' = [op |-> "resetToUpload", toast |-> "none", calls |-> 0]
    /\ UNCHANGED <<timers, engineFrames>>

ResetFilter ==
    /\ state' = [state EXCEPT !.filteredData = Null]
    /\ last' = [op |-> "resetFilter", toast |-> "Signals restored to original",
                calls |-> 0]
    /\ UNCHANGED <<timers, engineFrames>>

\* for (i < Math.min(length, StabilityScan)) if (!isFinite(filtered[0][i])) ...
StabilityScan == 1000
Stable(channel, limit) ==
    Strict(LAMBDA data :
               \A i \in 0..(Len(data) - 1) : i < limit => isFinite(At(data, i)),
           channel)

\* applyFilter up to setTimeout: the form is read and validated, and the
\* filtering is deferred; the model holds at most MaxTimers deferred callbacks
ApplyFilter ==
    /\ Len(timers) < MaxTimers
    /\ \E form \in Forms :
          LET params == getFilterParams(form)
              toast == IF state.eegData = Null THEN "none"
                       ELSE validateFilterParams(params, form.filterType,
                                                 state.eegData.sampleRate)
          IN  /\ last' = [op |-> "applyFilter", toast |-> toast, calls |-> 0]
              /\ timers' = IF toast = "valid"
                           THEN Append(timers, [sampleRate |-> state.eegData.sampleRate,
                                                params |-> params,
                                                filterType |-> form.filterType])
                           ELSE timers
    /\ UNCHANGED <<state, engineFrames>>

\* the slip of storing the result before it is scanned
StoredUnscanned(st, filtered, stable) ==
    [st EXCEPT !.filteredData = [channels |-> filtered]]

\* this.state.filteredData = filtered, which is reached only past the scan
Stored(st, filtered, stable) ==
    IF stable THEN [st EXCEPT !.filteredData = [channels |-> filtered]] ELSE st

\* the slip of filtering what the last filter left
SourceDataFiltered(st) ==
    IF st.eegData = Null THEN <<>>
    ELSE IF st.filteredData # Null THEN st.filteredData.channels
    ELSE st.eegData.channelData

\* const sourceData = this.state.eegData.channelData, read when the callback
\* runs; no array stands for the TypeError of reading it off null
SourceData(st) == IF st.eegData = Null THEN <<>> ELSE st.eegData.channelData

\* the callback of applyFilter: reading channelData of no recording throws, as
\* does reading filtered[0].length of a recording with no channel
ApplyFilterTimer ==
    /\ timers # <<>>
    /\ timers' = Tail(timers)
    /\ LET t == Head(timers)
           sourceData == SourceData(state)
           threw == state.eegData = Null \/ Len(sourceData) = 0
       IN  \E filtered \in {[ch \in 1..Len(sourceData) |->
                                butterworth(sourceData[ch], t.sampleRate, t.params.low,
                                            t.params.high, t.params.order,
                                            t.filterType)]} :
           \E stable \in {~threw /\ Stable(filtered[1], StabilityScan)} :
           /\ last' = [op |-> "applyFilterTimer", calls |-> Len(sourceData),
                       toast |-> CASE threw -> "Filter encountered an error"
                                   [] ~threw /\ ~stable -> "Filter produced unstable output"
                                   [] OTHER -> "Filter applied to all channels"]
           /\ state' = Stored(state, filtered, stable)
    /\ UNCHANGED engineFrames

\* previewFilter: one channel is filtered and drawn, nothing is stored
PreviewFilter ==
    /\ \E form \in Forms, chIdx \in 0..1 :
          /\ state.eegData # Null => chIdx < Len(state.eegData.channelData)
          /\ state.eegData = Null => chIdx = 0
          /\ LET params == getFilterParams(form)
                 toast == IF state.eegData = Null THEN "none"
                          ELSE validateFilterParams(params, form.filterType,
                                                    state.eegData.sampleRate)
                 clip == At(state.eegData.channelData, chIdx)
                 previewLen == IF Len(clip) < IntOf(FFloor(FMul(state.eegData.sampleRate,
                                                               Num(10))))
                               THEN Len(clip)
                               ELSE IntOf(FFloor(FMul(state.eegData.sampleRate, Num(10))))
                 filteredClip == butterworth(SubSeq(clip, 1, previewLen),
                                             state.eegData.sampleRate, params.low,
                                             params.high, params.order, form.filterType)
             IN  last' = IF toast # "valid"
                         THEN [op |-> "previewFilter", toast |-> toast, calls |-> 0]
                         ELSE Strict(LAMBDA out :
                                         [op |-> "previewFilter", calls |-> 1,
                                          toast |-> IF Stable(out, Len(out))
                                                    THEN "Filter preview ready"
                                                    ELSE "Filter produced unstable output"],
                                     filteredClip)
    /\ UNCHANGED <<state, timers, engineFrames>>

AppNext ==
    \/ LoadFile
    \/ ResetToUpload
    \/ ResetFilter
    \/ ApplyFilter
    \/ ApplyFilterTimer
    \/ PreviewFilter

SpecApp == AppInit /\ [][AppNext]_vars

(***************************************************************************)
(* Properties of fft.                                                      *)
(***************************************************************************)
IsPow2(n) == \E e \in 0..(MaxLen + 4) : n = 2 ^ e

RECURSIVE DftSum(_, _, _, _)
DftSum(x, k, i, part) ==
    IF i >= Len(x) THEN part
    ELSE DftSum(x, k, i + 1,
                [re |-> FAdd(part.re, FMul(At(x, i), Cos2Pi(Rat(k * i, Len(x))))),
                 im |-> FSub(part.im, FMul(At(x, i), Sin2Pi(Rat(k * i, Len(x)))))])
Dft(x, k) == DftSum(x, k, 0, [re |-> Zero, im |-> Zero])

\* the bins k of a pure sinusoid: signal is cos or sin at bin k of N = Len
SinusoidBin(signal) ==
    {k \in 1..(Len(signal) \div 2 - 1) :
        /\ <<Len(signal), k>> \in SinusoidBins
        /\ signal \in {Cosine(Len(signal), k), Sine(Len(signal), k)}}

\* C2: the output of fft is the discrete Fourier transform of the padded
\* input; for a pure sinusoid at bin k, 0 < k < N/2, every bin other than k
\* and N - k is zero and the bins k and N - k are not.
C2_FftIsDft ==
    fftCall.pc = "done" =>
        LET N == fftCall.out.N
        IN  /\ \A k \in 0..(N - 1) :
                 /\ At(fftCall.out.re, k) = Dft(fftCall.data, k).re
                 /\ At(fftCall.out.im, k) = Dft(fftCall.data, k).im
            /\ \A k \in SinusoidBin(fftCall.signal) : \A i \in 0..(N - 1) :
                 (At(fftCall.out.re, i) = Zero /\ At(fftCall.out.im, i) = Zero)
                     <=> i \notin {k, N - k}

\* the sine at bin 3 of 8 samples has been transformed: twiddles of every
\* stage, the irrational ones included, were used
C2_Witness ==
    /\ fftCall.pc = "done"
    /\ fftCall.signal = Sine(8, 3)
    /\ At(fftCall.out.im, 3) = Num(-4)
    /\ At(fftCall.out.im, 5) = Num(4)

(***************************************************************************)
(* Properties of welchPSD and directPSD.                                   *)
(***************************************************************************)
\* C3: welchPSD falls back to directPSD over the whole signal whenever the
\* signal is shorter than one window, and otherwise does not fall back and
\* accumulates exactly numSegments segments.
C3_WelchSegmentsOrFallback ==
    welch.pc = "done" =>
        /\ welch.step = WelchStep(welch.windowSize, welch.overlap)
        /\ welch.numSegments =
               WelchNumSegments(Len(welch.signal), welch.windowSize, welch.step)
        /\ Len(welch.signal) < welch.windowSize =>
               /\ FLt(welch.numSegments, One)
               /\ welch.fallback
               /\ welch.result =
                      directPSD(welch.signal, welch.sampleRate, welch.windowType)
        /\ Len(welch.signal) >= welch.windowSize =>
               /\ ~welch.fallback
               /\ Num(welch.seg) = welch.numSegments

\* S[i] of the first seg segments: the squared magnitudes of bin i, summed
RECURSIVE SegmentSum(_, _)
SegmentSum(i, seg) ==
    IF seg = 0 THEN Zero
    ELSE FAdd(SegmentSum(i, seg - 1),
              Mag2(fft(Windowed(welch.signal, (seg - 1) * IntOf(welch.step),
                                welch.window, welch.windowSize, welch.N)), i))

WelchScaled(i) ==
    FDiv(FMul(Num(2), SegmentSum(i, welch.seg)),
         FMul(FMul(FMul(welch.numSegments, welch.sampleRate), welch.windowPower),
              Num(welch.windowSize)))

\* C4: in the result of welchPSD every interior bin is
\* 2*S[i] / (numSegments*sampleRate*windowPower*windowSize); the DC bin and
\* the Nyquist bin, when there is one, are half of that expression, and no
\* other bin is halved.
C4_WelchNormalization ==
    (welch.pc = "done" /\ ~welch.fallback) =>
        /\ Len(welch.result.psd) = HalfBins(welch.N)
        /\ \A i \in 0..(Len(welch.result.psd) - 1) :
              At(welch.result.psd, i) =
                  IF i = 0 \/ 2 * i = welch.N
                  THEN FDiv(WelchScaled(i), Num(2))
                  ELSE WelchScaled(i)

\* two segments of a four-sample window: the DC bin, the interior bin and the
\* Nyquist bin of the result are all positive
C4_Witness ==
    /\ welch.pc = "done" /\ ~welch.fallback
    /\ welch.N = 4 /\ welch.seg = 2
    /\ \A i \in 0..2 : FGt(At(welch.result.psd, i), Zero)
    /\ At(welch.result.psd, 1) = WelchScaled(1)
    /\ At(welch.result.psd, 2) = FDiv(WelchScaled(2), Num(2))

\* C5: every bin of the psd that welchPSD returns, by itself or through
\* directPSD, is >= 0 and in particular not NaN.
C5_PsdNonNegative ==
    welch.pc = "done" =>
        \A i \in 1..Len(welch.result.psd) : FGe(welch.result.psd[i], Zero)

(***************************************************************************)
(* Properties of computeBandPowers.                                        *)
(***************************************************************************)
RECURSIVE SumBins(_, _, _)
\* the sum of psd[i] * freqRes over the bins i < n that satisfy Keep
SumBins(Keep(_), call, n) ==
    IF n = 0 THEN Zero
    ELSE IF Keep(n - 1)
         THEN FAdd(SumBins(Keep, call, n - 1),
                   FMul(At(call.psd, n - 1), BandFreqRes(call.freqs)))
         ELSE SumBins(Keep, call, n - 1)

BandsOfBin(i) == {b \in DOMAIN bands : i \in bandCall.out[b].bins}

FiveBandSum ==
    FAdd(FAdd(FAdd(FAdd(bandCall.out.delta.power, bandCall.out.theta.power),
                   bandCall.out.alpha.power),
              bandCall.out.beta.power),
         bandCall.out.gamma.power)

\* C6: each bin is added to at most one band, the one whose interval
\* [low, high) holds its frequency, so a bin on 4, 8, 13 or 30 Hz counts in the
\* upper band only and a bin below 0.5 Hz or from 100 Hz on in none; and the
\* five band powers sum to at most the power of the bins in [0, 100] Hz.
C6_BandsHalfOpen ==
    bandCall.pc = "done" =>
        /\ \A i \in 0..(Len(bandCall.freqs) - 1) :
              LET f == At(bandCall.freqs, i)
              IN  /\ Cardinality(BandsOfBin(i)) <= 1
                  /\ \A b \in DOMAIN bands :
                        b \in BandsOfBin(i) <=>
                            (FLe(bands[b].low, f) /\ FLt(f, bands[b].high))
                  /\ f = Num(4) => BandsOfBin(i) = {"theta"}
                  /\ f = Num(8) => BandsOfBin(i) = {"alpha"}
                  /\ f = Num(13) => BandsOfBin(i) = {"beta"}
                  /\ f = Num(30) => BandsOfBin(i) = {"gamma"}
                  /\ (FLt(f, Rat(1, 2)) \/ FGe(f, Num(100))) => BandsOfBin(i) = {}
        /\ \A b \in DOMAIN bands :
              bandCall.out[b].power =
                  SumBins(LAMBDA i : i \in bandCall.out[b].bins,
                          bandCall, Len(bandCall.freqs))
        /\ FLe(FiveBandSum,
               SumBins(LAMBDA i : FLe(Zero, At(bandCall.freqs, i))
                                  /\ FLe(At(bandCall.freqs, i), Num(100)),
                       bandCall, Len(bandCall.freqs)))

\* an axis of 4 Hz steps: the bin on 4 Hz has power and is added to theta and
\* to no other band, the bin on 0 Hz has power and is added to none, so the
\* five bands hold less than the whole
C6_Witness ==
    /\ bandCall.pc = "done"
    /\ Len(bandCall.freqs) = 5
    /\ At(bandCall.freqs, 1) = Num(4)
    /\ At(bandCall.psd, 0) = One /\ At(bandCall.psd, 1) = One
    /\ BandsOfBin(0) = {} /\ BandsOfBin(1) = {"theta"}
    /\ FGe(bandCall.out.theta.power, Num(4))
    /\ FLt(FiveBandSum, SumBins(LAMBDA i : TRUE, bandCall, 5))

(***************************************************************************)
(* Properties of validateFilterParams.                                     *)
(***************************************************************************)
\* the requirements on a parameter set, as documented
MeetsRequirements(params, filterType, nyquist) ==
    CASE filterType = "bandpass" ->
           FLt(params.low, params.high) /\ FLt(params.high, nyquist)
           /\ FGe(params.low, Rat(5, 100))
      [] filterType = "highpass" -> FLt(params.low, nyquist)
      [] filterType = "lowpass" -> FLt(params.high, nyquist)
      [] filterType = "notch" -> FLt(params.low, nyquist)

\* C7: validateFilterParams returns true exactly for the parameter sets that
\* meet the requirements, and so rejects the ones holding NaN.
C7_ValidateExactly ==
    validate.pc = "done" =>
        (validate.toast = "valid" <=>
            MeetsRequirements(validate.params, validate.form.filterType,
                              FDiv(validate.sampleRate, Num(2))))

(***************************************************************************)
(* Properties of butterworth.                                              *)
(***************************************************************************)
\* what clampFreq is to make of a given cutoff
Clamped(given, handed, nyquist) ==
    IF isFinite(given)
    THEN FLe(MinCutoff, handed) /\ FLe(handed, FMul(nyquist, Rat(999, 1000)))
    ELSE handed = FMin(One, FMul(nyquist, Rat(1, 4)))

\* C10: each cutoff handed to a stage is the given one clamped into
\* [1e-6, nyquist*0.999], or min(1, nyquist*0.25) when the given one is not
\* finite; for bandpass the highpass stage gets a cutoff <= that of the
\* lowpass stage, whichever way round the two were given.
C10_CutoffsClamped ==
    butter.pc \in {"stages", "done"} =>
        LET nyquist == FDiv(butter.sampleRate, Num(2))
            st == butter.stages
        IN  CASE butter.type = "bandpass" ->
                   /\ Len(st) = 2
                   /\ st[1].stage = "highpass" /\ st[2].stage = "lowpass"
                   /\ FLe(st[1].freq, st[2].freq)
                   /\ \/ /\ Clamped(butter.lowCut, st[1].freq, nyquist)
                         /\ Clamped(butter.highCut, st[2].freq, nyquist)
                      \/ /\ Clamped(butter.lowCut, st[2].freq, nyquist)
                         /\ Clamped(butter.highCut, st[1].freq, nyquist)
              [] butter.type = "lowpass" ->
                   /\ Len(st) = 1 /\ st[1].stage = "lowpass"
                   /\ Clamped(butter.highCut, st[1].freq, nyquist)
              [] OTHER ->
                   /\ Len(st) = 1 /\ st[1].stage = butter.type
                   /\ Clamped(butter.lowCut, st[1].freq, nyquist)

\* a bandpass given 3 Hz as its low and nothing as its high cutoff: the
\* highpass stage ran at 1 Hz, the lowpass stage at 3 Hz
C10_Witness ==
    /\ butter.pc = "done" /\ butter.type = "bandpass"
    /\ butter.lowCut = Num(3) /\ IsNaN(butter.highCut)
    /\ butter.stages[1].freq = One /\ butter.stages[2].freq = Num(3)
    /\ \A i \in 1..3 : isFinite(butter.filtered[i])

(***************************************************************************)
(* Properties of the filter panel.                                         *)
(***************************************************************************)
FailureToasts ==
    ValidationToasts \cup
        {"Filter produced unstable output", "Filter encountered an error"}

C9_FilteredDataFinite ==
    state.filteredData # Null =>
        \A ch \in 1..Len(state.filteredData.channels) :
            \A i \in 1..Len(state.filteredData.channels[ch]) :
                isFinite(state.filteredData.channels[ch][i])

(***************************************************************************)
(* The forward-backward filter of _biquadCascade (one section) and of      *)
(* _notchFilter, pass by pass, on signals that are symmetric about their   *)
(* centre.                                                                 *)
(***************************************************************************)
Symmetric(x) == \A i \in 0..(Len(x) - 1) : At(x, i) = At(x, Len(x) - 1 - i)

SymmetricSignals == {x \in ArraysUpTo(SampleValues, MaxSamples) : Len(x) >= 1 /\ Symmetric(x)}

\* the filters of one section whose coefficients lie in Q(sqrt 2), at 8 Hz
ZeroPhaseFilters ==
    {[kind |-> "cascade", type |-> t, freq |-> Num(f), order |-> 2] :
        t \in {"lowpass", "highpass"}, f \in 1..3}
    \cup {[kind |-> "notch", type |-> "notch", freq |-> Num(2), order |-> 2]}

ZeroPhaseCoeffs(filter, sampleRate) ==
    IF filter.kind = "notch" THEN notchCoeffs(sampleRate, filter.freq, Num(2))
    ELSE biquadCoeffs(sampleRate, filter.freq, filter.type, SectionQ(0, filter.order))

ZeroPhaseInit ==
    /\ zeroPhase \in {[pc |-> "call", signal |-> x, filter |-> f, data |-> x] :
                         x \in SymmetricSignals, f \in ZeroPhaseFilters}
    /\ Quiet({"zeroPhase"})

zeroPhaseRest == <<fftCall, welch, bandCall, validate, butter, appVars,
                   alias, stats, montage, spectro, stepFrames>>

\* data = this._applyBiquad(data, coeffs), the forward pass
ZeroPhaseForward ==
    /\ zeroPhase.pc = "call"
    /\ zeroPhase' = [zeroPhase EXCEPT
                       !.pc = "forward",
                       !.data = applyBiquad(zeroPhase.data,
                                            ZeroPhaseCoeffs(zeroPhase.filter, Num(8)))]
    /\ UNCHANGED zeroPhaseRest

\* data = data.reverse(), after either pass
ZeroPhaseReverse ==
    /\ zeroPhase.pc \in {"forward", "backward"}
    /\ zeroPhase' = [zeroPhase EXCEPT
                       !.pc = IF zeroPhase.pc = "forward" THEN "reversed" ELSE "done",
                       !.data = Reverse(zeroPhase.data)]
    /\ UNCHANGED zeroPhaseRest

\* data = this._applyBiquad(data, coeffs), the backward pass
ZeroPhaseBackward ==
    /\ zeroPhase.pc = "reversed"
    /\ zeroPhase' = [zeroPhase EXCEPT
                       !.pc = "backward",
                       !.data = applyBiquad(zeroPhase.data,
                                            ZeroPhaseCoeffs(zeroPhase.filter, Num(8)))]
    /\ UNCHANGED zeroPhaseRest

SpecZeroPhase ==
    ZeroPhaseInit /\ [][ZeroPhaseForward \/ ZeroPhaseReverse \/ ZeroPhaseBackward]_vars

\* C11: the output of the forward-backward filter on a signal that is
\* symmetric about its centre is symmetric about the same centre
C11_ZeroPhaseSymmetric ==
    zeroPhase.pc = "done" => Symmetric(zeroPhase.data)

\* C12: welchPSD terminates after finitely many segments: the number of
\* segments its loop runs to is at most the number of samples (or is NaN,
\* which ends the loop at once), never Infinity.
C12_WelchTerminates ==
    welch.pc = "loop" => ~FGt(welch.numSegments, Num(Len(welch.signal)))

(***************************************************************************)
(* One call of an engine operation on arrays the caller owns: which arrays *)
(* the operation allocates, which it writes and which it hands back.       *)
(***************************************************************************)
AliasTypes == {"bandpass", "highpass", "lowpass", "notch", "allpass"}
DownsampleFactors == {Rat(1, 2), One, Rat(3, 2), Num(2), Num(3)}

AliasOps ==
    {[op |-> "fft"], [op |-> "directPSD"], [op |-> "averageReference"]}
    \cup {[op |-> "butterworth", type |-> t] : t \in AliasTypes}
    \cup {[op |-> "downsample", factor |-> f] : f \in DownsampleFactors}

\* the caller's arrays: one or two channels of MaxSamples - 1 samples at most
AliasHeaps ==
    UNION {Arrays(ArraysUpTo({Num(-1), One}, MaxSamples - 1), k) : k \in 1..2}

AliasInit ==
    /\ \E heap \in AliasHeaps, call \in AliasOps, at \in 1..2 :
          /\ at <= Len(heap)
          /\ call.op = "averageReference" =>
                 at = 1 /\ \A c \in 1..Len(heap) : Len(heap[c]) = Len(heap[1])
          /\ alias = [pc |-> "call", given |-> heap, heap |-> heap, call |-> call,
                      at |-> at]
    /\ Quiet({"alias"})

aliasRest == <<fftCall, welch, bandCall, validate, butter, appVars,
               zeroPhase, stats, montage, spectro, stepFrames>>

\* the operation has returned the arrays at the addresses of result
Returned(heap, result) ==
    [alias EXCEPT !.pc = "done", !.heap = heap] @@ [result |-> result]

\* fft: re and im are allocated, transformed in place and returned
AliasFft ==
    /\ alias.pc = "call" /\ alias.call.op = "fft"
    /\ \E f \in {fft(alias.heap[alias.at])} :
          alias' = Returned(alias.heap \o <<f.re, f.im>>,
                            {Len(alias.heap) + 1, Len(alias.heap) + 2})
    /\ UNCHANGED aliasRest

\* directPSD: window, windowed, re, im, psd and freqs are allocated; psd and
\* freqs are returned
AliasDirectPSD ==
    /\ alias.pc = "call" /\ alias.call.op = "directPSD"
    /\ \E signal \in {alias.heap[alias.at]} :
       \E windowed \in {Windowed(signal, 0, getWindow(Len(signal), "rectangular"),
                                 Len(signal), nextPow2(Len(signal)))} :
       \E f \in {fft(windowed)} :
       \E out \in {directPSD(signal, Num(8), "rectangular")} :
          alias' = Returned(alias.heap \o <<getWindow(Len(signal), "rectangular"),
                                            windowed, f.re, f.im, out.psd, out.freqs>>,
                            {Len(alias.heap) + 5, Len(alias.heap) + 6})
    /\ UNCHANGED aliasRest

\* butterworth at 8 Hz with both cutoffs at 2 Hz and order 2
AliasButterworth ==
    /\ alias.pc = "call" /\ alias.call.op = "butterworth"
    /\ \E hp \in {HeapButterworth([heap |-> alias.heap, at |-> alias.at], Num(8),
                                  Num(2), Num(2), 2, alias.call.type)} :
          alias' = Returned(hp.heap, {hp.at})
    /\ UNCHANGED aliasRest

\* averageReference: result holds a copy of every channel, which is then
\* updated in place and returned
AliasAverageReference ==
    /\ alias.pc = "call" /\ alias.call.op = "averageReference"
    /\ \E result \in {averageReference([c \in 1..Len(alias.heap) |->
                                            [i \in 1..Len(alias.heap[c]) |->
                                                FromExact(alias.heap[c][i])]])} :
          alias' = Returned(alias.heap \o [c \in 1..Len(result) |->
                                             [i \in 1..Len(result[c]) |->
                                                 ToExact(result[c][i])]],
                            {Len(alias.heap) + c : c \in 1..Len(alias.heap)})
    /\ UNCHANGED aliasRest

\* downsample: "if (factor <= 1) return signal", else out is allocated
AliasDownsample ==
    /\ alias.pc = "call" /\ alias.call.op = "downsample"
    /\ alias' = IF FLe(alias.call.factor, One)
                THEN Returned(alias.heap, {alias.at})
                ELSE Returned(Append(alias.heap,
                                     DownsampleOut(alias.heap[alias.at],
                                                   alias.call.factor)),
                              {Len(alias.heap) + 1})
    /\ UNCHANGED aliasRest

SpecAlias ==
    AliasInit /\ [][AliasFft \/ AliasDirectPSD \/ AliasButterworth
                    \/ AliasAverageReference \/ AliasDownsample]_vars

\* C13: an engine operation leaves the arrays it is given as they were, and
\* none of the arrays it returns is an array it was given.
C13_ArraysFreshAndUntouched ==
    alias.pc = "done" =>
        /\ \A a \in 1..Len(alias.given) : alias.heap[a] = alias.given[a]
        /\ \A a \in alias.result : a > Len(alias.given)

(***************************************************************************)
(* computeStatistics on constant signals and on signals that alternate in  *)
(* sign, of 3 to MaxLen + 2 samples; the samples are the doubles of        *)
(* Precision bits in [1/2, 2) and their negatives, and 0.                  *)
(***************************************************************************)
StatsValues ==
    {TZero} \cup {[m |-> sign * m, e |-> e] :
                     sign \in {-1, 1}, m \in Pow2(Precision - 1)..(Pow2(Precision) - 1),
                     e \in {-Precision, 1 - Precision}}

Constant(v, n) == [i \in 1..n |-> v]
Alternating(v, n) == [i \in 1..n |-> IF i % 2 = 1 THEN v ELSE TNeg(v)]

StatsSignals ==
    {Constant(v, n) : v \in StatsValues, n \in 3..(MaxLen + 2)}
    \cup {Alternating(v, n) : v \in StatsValues, n \in 3..(MaxLen + 2)}

StatsInit ==
    /\ stats \in {[pc |-> "sums", signal |-> x, i |-> 0,
                   acc |-> [sum |-> TZero, sumSq |-> TZero, min |-> TPInf,
                            max |-> TNInf, zeroCrossings |-> 0]] :
                     x \in StatsSignals}
    /\ Quiet({"stats"})

statsRest == <<fftCall, welch, bandCall, validate, butter, appVars,
               zeroPhase, alias, montage, spectro, stepFrames>>

\* one pass of the first loop
StatsSum ==
    /\ stats.pc = "sums" /\ stats.i < Len(stats.signal)
    /\ stats' = [stats EXCEPT !.i = stats.i + 1,
                              !.acc = StatsSumStep(stats.signal, stats.i, stats.acc)]
    /\ UNCHANGED statsRest

\* between the loops: mean is fixed, m3 = m4 = 0
StatsMoments ==
    /\ stats.pc = "sums" /\ stats.i >= Len(stats.signal)
    /\ stats' = [pc |-> "moments", i |-> 0,
                 mean |-> StatsMean(stats.acc, Len(stats.signal)),
                 mom |-> [m3 |-> TZero, m4 |-> TZero]] @@ stats
    /\ UNCHANGED statsRest

\* one pass of the second loop
StatsMoment ==
    /\ stats.pc = "moments" /\ stats.i < Len(stats.signal)
    /\ stats' = [stats EXCEPT !.i = stats.i + 1,
                              !.mom = StatsMomentStep(stats.signal, stats.i, stats.mean,
                                                      stats.mom)]
    /\ UNCHANGED statsRest

StatsReturn ==
    /\ stats.pc = "moments" /\ stats.i >= Len(stats.signal)
    /\ stats' = [pc |-> "done",
                 result |-> StatsResult(stats.acc, stats.mom, Len(stats.signal))] @@ stats
    /\ UNCHANGED statsRest

SpecStats ==
    StatsInit /\ [][StatsSum \/ StatsMoments \/ StatsMoment \/ StatsReturn]_vars

\* C14: on a constant signal of 3 samples or more computeStatistics returns
\* std, variance, skewness and kurtosis equal to 0 and no zero crossing.
C14_ConstantSignalStatistics ==
    stats.pc = "done" /\ (\A i \in 1..Len(stats.signal) : stats.signal[i] = stats.signal[1])
        => /\ stats.result.std = TZero
           /\ stats.result.variance = TZero
           /\ stats.result.skewness = TZero
           /\ stats.result.kurtosis = TZero
           /\ stats.result.zeroCrossings = 0

(***************************************************************************)
(* averageReference and bipolarMontage on recordings of one to MaxChannels *)
(* channels.  averageReference is applied a second time to its own result. *)
(***************************************************************************)
MontageValues == {TNum(k) : k \in 0..3}

MaxChannels == 3

\* the recordings: every recording of one sample and up to MaxChannels
\* channels, every recording of two samples and up to two channels, and the
\* channels [1, 2, 3] and [3, 2, 1]
Recording(numChannels, numSamples) ==
    [1..numChannels -> [1..numSamples -> MontageValues]]
MontageRecordings ==
    UNION {Recording(c, 1) : c \in 1..MaxChannels}
    \cup UNION {Recording(c, 2) : c \in 1..2}
    \cup {<<<<TNum(1), TNum(2), TNum(3)>>, <<TNum(3), TNum(2), TNum(1)>>>>}

\* labels as they occur in recordings, in either case, with and without a
\* place in the chain list
MontageLabels ==
    {<<"F", "p", "1">>, <<"F", "P", "1">>, <<"f", "3">>, <<"F", "3">>, <<"C", "3">>,
     <<"c", "z">>, <<"P", "z">>, <<"E", "C", "G">>}

\* channel c of a labelled recording holds the samples c and 2c
Channels(numChannels) ==
    [c \in 1..numChannels |-> <<TNum(c), TNum(2 * c)>>]

MontageInit ==
    /\ \/ \E channelData \in MontageRecordings :
             montage = [pc |-> "call", op |-> "averageReference",
                        channelData |-> channelData]
       \/ \E n \in 1..MaxChannels : \E channelLabels \in [1..n -> MontageLabels] :
             montage = [pc |-> "call", op |-> "bipolarMontage",
                        channelData |-> Channels(n), channelLabels |-> channelLabels]
    /\ Quiet({"montage"})

montageRest == <<fftCall, welch, bandCall, validate, butter, appVars,
                 zeroPhase, alias, stats, spectro, stepFrames>>

AverageReference ==
    /\ montage.pc = "call" /\ montage.op = "averageReference"
    /\ montage' = [pc |-> "done", result |-> averageReference(montage.channelData)]
                  @@ montage
    /\ UNCHANGED montageRest

\* averageReference(result), result being what the first call returned
AverageReferenceAgain ==
    /\ montage.pc = "done" /\ montage.op = "averageReference"
    /\ montage' = [pc |-> "again", again |-> averageReference(montage.result)]
                  @@ montage
    /\ UNCHANGED montageRest

BipolarMontage ==
    /\ montage.pc = "call" /\ montage.op = "bipolarMontage"
    /\ montage' = [pc |-> "done",
                   result |-> bipolarMontage(montage.channelData, montage.channelLabels)]
                  @@ montage
    /\ UNCHANGED montageRest

SpecMontage ==
    MontageInit /\ [][AverageReference \/ AverageReferenceAgain \/ BipolarMontage]_vars

(***************************************************************************)
(* Properties of averageReference.                                         *)
(***************************************************************************)
\* the exact sum of sample s over the channels c, c + 1, ... of a recording
RECURSIVE ExactSum(_, _, _)
ExactSum(channelData, s, c) ==
    IF c > Len(channelData) THEN Zero
    ELSE FAdd(ToExact(channelData[c][s]), ExactSum(channelData, s, c + 1))

\* the exact mean over all channels of sample s
ExactMean(channelData, s) == FDiv(ExactSum(channelData, s, 1), Num(Len(channelData)))

\* the mean of sample s as a double: the sum in channel order, each step
\* rounded, divided by the number of channels
RECURSIVE DoubleSum(_, _, _)
DoubleSum(channelData, s, c) ==
    IF c = 0 THEN TZero
    ELSE TAdd(DoubleSum(channelData, s, c - 1), channelData[c][s])
DoubleMean(channelData, s) ==
    TDiv(DoubleSum(channelData, s, Len(channelData)), TNum(Len(channelData)))

SameShape(a, b) ==
    /\ Len(a) = Len(b)
    /\ \A c \in 1..Len(a) : Len(a[c]) = Len(b[c])

\* every value of result is exactly the sample minus the exact mean
MinusExactMean(channelData, result) ==
    \A c \in 1..Len(channelData) : \A s \in 1..Len(channelData[c]) :
        ToExact(result[c][s]) =
            FSub(ToExact(channelData[c][s]), ExactMean(channelData, s))

SumsToZero(result) ==
    \A s \in 1..Len(result[1]) : ExactSum(result, s, 1) = Zero

AverageReferenceDone ==
    montage.pc \in {"done", "again"} /\ montage.op = "averageReference"

ChannelsNamed(channelLabels, name) ==
    {idx \in 1..Len(channelLabels) :
        toUpperCase(channelLabels[idx]) = toUpperCase(name)}

\* the pairs of the chain list both of whose labels occur
PairsFound(channelLabels) ==
    {k \in 1..Len(bipolarChains) :
        /\ ChannelsNamed(channelLabels, bipolarChains[k][1]) # {}
        /\ ChannelsNamed(channelLabels, bipolarChains[k][2]) # {}}

\* channel a minus channel b, element by element, exactly
ExactDifference(channelData, a, b, diff) ==
    /\ Len(diff) = Len(channelData[a])
    /\ \A i \in 1..Len(diff) :
          ToExact(diff[i]) = FSub(ToExact(channelData[a][i]), ToExact(channelData[b][i]))

\* C16: bipolarMontage returns one channel for each pair of the chain list
\* both of whose labels occur among the channel labels, whatever their case,
\* in the order of the chain list, labelled A-B and equal to channel A minus
\* channel B; it returns the differences of the successive channels if and
\* only if no pair of the chain list is found.
C16_BipolarMontage ==
    montage.pc = "done" /\ montage.op = "bipolarMontage" =>
        LET found == PairsFound(montage.channelLabels)
            out == montage.result
        IN  /\ Len(out.channelData) = Len(out.channelLabels)
            /\ found # {} =>
                  /\ Len(out.channelData) = Cardinality(found)
                  /\ \A k \in found :
                        LET j == Cardinality({other \in found : other <= k})
                        IN  /\ out.channelLabels[j] =
                                   bipolarChains[k][1] \o <<"-">> \o bipolarChains[k][2]
                            /\ \E a \in ChannelsNamed(montage.channelLabels,
                                                      bipolarChains[k][1]) :
                               \E b \in ChannelsNamed(montage.channelLabels,
                                                      bipolarChains[k][2]) :
                                  ExactDifference(montage.channelData, a, b,
                                                  out.channelData[j])
            /\ found = {} =>
                  /\ Len(out.channelData) = Len(montage.channelData) - 1
                  /\ \A i \in 1..(Len(montage.channelData) - 1) :
                        /\ out.channelLabels[i] =
                               montage.channelLabels[i] \o <<"-">>
                                   \o montage.channelLabels[i + 1]
                        /\ ExactDifference(montage.channelData, i, i + 1,
                                           out.channelData[i])

\* the labels Fp1, F3, C3 have given exactly Fp1-F3 and F3-C3
C16_Witness ==
    /\ montage.pc = "done" /\ montage.op = "bipolarMontage"
    /\ montage.channelLabels = <<<<"F", "p", "1">>, <<"F", "3">>, <<"C", "3">>>>
    /\ montage.result.channelLabels =
           <<<<"F", "p", "1", "-", "F", "3">>, <<"F", "3", "-", "C", "3">>>>
    /\ montage.result.channelData =
           <<<<TNum(-1), TNum(-2)>>, <<TNum(-1), TNum(-2)>>>>

(***************************************************************************)
(* Inputs of computeSpectrogram: the signals of welchPSD, a window of up   *)
(* to MaxWindow samples (the window is always the Hann window), an overlap *)
(* of 0, 1/2, 3/4 (the default, which the application passes) or 1, and a  *)
(* maxFreq from 0 up to beyond the Nyquist frequency 4 of the sample rate. *)
(***************************************************************************)
SpectroOverlaps == {Zero, Rat(1, 2), Rat(3, 4), One}
MaxFreqs == {Zero, Num(2), Num(4), Num(8), Num(50)}

SpectroInit ==
    /\ \E signal \in WelchSignals, sampleRate \in SampleRates,
          windowSize \in WindowSizes, overlap \in SpectroOverlaps, maxFreq \in MaxFreqs :
          spectro = [pc |-> "call", signal |-> signal, sampleRate |-> sampleRate,
                     windowSize |-> windowSize, overlap |-> overlap,
                     maxFreq |-> maxFreq]
    /\ Quiet({"spectro"})

spectroRest == <<fftCall, welch, bandCall, validate, butter, appVars,
                 zeroPhase, alias, stats, montage, stepFrames>>

\* computeSpectrogram up to the loop over the frames: a signal shorter than
\* the window returns at once
ComputeSpectrogram ==
    /\ spectro.pc = "call"
    /\ \E step \in {SpectroStep(spectro.windowSize, spectro.overlap)},
          N \in {nextPow2(spectro.windowSize)} :
         \E numFreqBins \in {NumFreqBins(spectro.sampleRate, N, spectro.maxFreq)} :
           IF Len(spectro.signal) < spectro.windowSize
           THEN spectro' = [pc |-> "done", step |-> step,
                            result |-> [spectrogram |-> <<>>, times |-> <<>>,
                                        freqs |-> <<>>]] @@ spectro
           ELSE spectro' =
                  [pc |-> "frames", step |-> step,
                   numFrames |-> SpectroNumFrames(Len(spectro.signal),
                                                  spectro.windowSize, step),
                   N |-> N,
                   window |-> getWindow(spectro.windowSize, "hanning"),
                   numFreqBins |-> numFreqBins,
                   freqs |-> SpectroFreqs(spectro.sampleRate, N, numFreqBins),
                   spectrogram |-> <<>>, times |-> <<>>, frame |-> 0] @@ spectro
    /\ UNCHANGED spectroRest

\* one pass of the loop over the frames
SpectrogramFrame ==
    /\ spectro.pc = "frames" /\ FLt(Num(spectro.frame), spectro.numFrames)
    /\ \E f \in {SpectroFrame(spectro.signal, spectro.sampleRate, spectro.windowSize,
                              spectro.N, spectro.window, spectro.step,
                              spectro.numFreqBins, spectro.frame)} :
         spectro' = [spectro EXCEPT !.frame = spectro.frame + 1,
                                    !.times = Append(spectro.times, f.time),
                                    !.spectrogram = Append(spectro.spectrogram, f.power)]
    /\ UNCHANGED spectroRest

\* return { spectrogram, times, freqs }
SpectrogramReturn ==
    /\ spectro.pc = "frames" /\ ~FLt(Num(spectro.frame), spectro.numFrames)
    /\ spectro' = [pc |-> "done",
                   result |-> [spectrogram |-> spectro.spectrogram,
                               times |-> spectro.times,
                               freqs |-> spectro.freqs]] @@ spectro
    /\ UNCHANGED spectroRest

SpecSpectro ==
    SpectroInit /\ [][ComputeSpectrogram \/ SpectrogramFrame \/ SpectrogramReturn]_vars

\* what the claims say of the result, written with integers: the step, the
\* number of frames and the number of bins
StepFloor ==
    (spectro.windowSize * (spectro.overlap.d - spectro.overlap.a)) \div spectro.overlap.d

StepStated == IF StepFloor >= 1 THEN StepFloor ELSE 1

FramesStated == (Len(spectro.signal) - spectro.windowSize) \div StepStated + 1

\* min(floor(maxFreq / freqRes), N / 2) + 1 as a number, which is not an
\* integer for N = 1
BinsStated ==
    FAdd(FMin(FFloor(FDiv(FMul(spectro.maxFreq, Num(nextPow2(spectro.windowSize))),
                          spectro.sampleRate)),
              FDiv(Num(nextPow2(spectro.windowSize)), Num(2))), One)

\* C17: computeSpectrogram returns the empty result when the signal is
\* shorter than the window; otherwise floor((n - windowSize)/step) + 1 frames
\* with step = max(1, floor(windowSize*(1 - overlap))), times[f] =
\* f*step/sampleRate for each frame, every frame with exactly freqs.length
\* bins, and min(floor(maxFreq/freqRes), N/2) + 1 bins.
C17_SpectrogramShape ==
    spectro.pc = "done" =>
        IF Len(spectro.signal) < spectro.windowSize
        THEN spectro.result = [spectrogram |-> <<>>, times |-> <<>>, freqs |-> <<>>]
        ELSE /\ Len(spectro.result.spectrogram) = FramesStated
             /\ Len(spectro.result.times) = FramesStated
             /\ \A f \in 1..Len(spectro.result.times) :
                   spectro.result.times[f] =
                       FDiv(Num((f - 1) * StepStated), spectro.sampleRate)
             /\ \A f \in 1..Len(spectro.result.spectrogram) :
                   Len(spectro.result.spectrogram[f]) = Len(spectro.result.freqs)
             /\ Num(Len(spectro.result.freqs)) = BinsStated

DirectSpectrum ==
    fft(Windowed(welch.signal, 0, getWindow(Len(welch.signal), welch.windowType),
                 Len(welch.signal), nextPow2(Len(welch.signal))))

\* 2 * |X[i]|^2 / (sampleRate * n), what the claim has for an interior bin
DirectScaled(i) ==
    FDiv(FMul(Num(2), Mag2(DirectSpectrum, i)),
         FMul(welch.sampleRate, Num(Len(welch.signal))))

\* C19: in the result of directPSD every interior bin is
\* 2*|X[i]|^2 / (sampleRate*n), and the DC bin and the Nyquist bin are not
\* doubled: they are half of that expression.
C19_DirectNormalization ==
    (welch.pc = "done" /\ welch.fallback) =>
        \A i \in 0..(Len(welch.result.psd) - 1) :
           At(welch.result.psd, i) =
               IF i = 0 \/ 2 * i = nextPow2(Len(welch.signal))
               THEN FDiv(DirectScaled(i), Num(2))
               ELSE DirectScaled(i)

\* the FFT length of the call: of the window, or of the whole signal on the
\* way through directPSD
PsdN == IF welch.fallback THEN nextPow2(Len(welch.signal)) ELSE welch.N

\* freqs[i] = i * sampleRate / N at every index, and freqs strictly increasing
FreqsLinear ==
    /\ \A i \in 0..(Len(welch.result.freqs) - 1) :
          At(welch.result.freqs, i) =
              FDiv(FMul(Num(i), welch.sampleRate), Num(PsdN))
    /\ \A i \in 1..(Len(welch.result.freqs) - 1) :
          FLt(welch.result.freqs[i], welch.result.freqs[i + 1])

ResponseInit ==
    /\ \E sampleRate \in ButterSampleRates, lowCut \in CutoffValues,
          highCut \in CutoffValues, order \in ButterOrders, type \in FilterTypes :
          response = [pc |-> "call", sampleRate |-> sampleRate, lowCut |-> lowCut,
                      highCut |-> highCut, order |-> order, type |-> type]
    /\ Quiet({"response"})

responseRest == <<fftCall, welch, bandCall, validate, butter, appVars,
                  zeroPhase, alias, stats, montage, spectro,
                  coh, cascade, bitrev, charts>>

\* the head of the loop body: totalMag = 1, and the branch on the type
ComputeFrequencyResponse ==
    /\ response.pc = "call"
    /\ response' = [pc |-> "stages",
                    stages |-> ResponseStages(response.lowCut, response.highCut,
                                              response.order, response.type),
                    next |-> 1, totalMag |-> One] @@ response
    /\ UNCHANGED responseRest

\* one call of _cascadeResponse or _notchResponse
ResponseCascade ==
    /\ response.pc = "stages"
    /\ response.next <= Len(response.stages)
    /\ ExactStage(response.sampleRate, response.stages[response.next])
    /\ response' = [response EXCEPT
                      !.totalMag = ResponseStage(response.totalMag, response.sampleRate,
                                                 response.stages[response.next]),
                      !.next = response.next + 1]
    /\ UNCHANGED responseRest

\* magnitude[i] of the point
ResponseReturn ==
    /\ response.pc = "stages"
    /\ response.next > Len(response.stages)
    /\ response' = [pc |-> "done",
                    magnitude |-> ResponseMagnitude(response.totalMag)] @@ response
    /\ UNCHANGED responseRest

SpecResponse ==
    ResponseInit /\ [][ComputeFrequencyResponse \/ ResponseCascade \/ ResponseReturn]_vars

\* the stages butterworth runs for the configuration of the call
ButterworthStages ==
    Stages(Cutoffs(response.sampleRate, response.lowCut, response.highCut,
                   response.type).low,
           Cutoffs(response.sampleRate, response.lowCut, response.highCut,
                   response.type).high,
           response.order, response.type)

\* C21: computeFrequencyResponse evaluates the cascade butterworth applies:
\* the same stage types in the same order, each with the order (hence the
\* sections and their Q) and the cutoff butterworth uses after its clamping
\* and its swap of low and high for bandpass.
C21_ResponseOfSameCascade ==
    response.pc \in {"stages", "done"} => response.stages = ButterworthStages

(***************************************************************************)
(* coherence of two signals: the two calls of welchPSD, which run in the   *)
(* frame of welchPSD with the default overlap and window, the loop over    *)
(* the segments and the return.  The signals are constant or alternating,  *)
(* of 1 to MaxLen samples.                                                 *)
(***************************************************************************)
CoherenceSignals ==
    UNION {{Zeros(n), [i \in 1..n |-> One], [i \in 1..n |-> IF i % 2 = 0 THEN One ELSE Num(-1)]} :
              n \in 1..MaxLen}

CoherenceInit ==
    /\ \E signal1 \in CoherenceSignals, signal2 \in CoherenceSignals,
          sampleRate \in SampleRates, windowSize \in WindowSizes :
          coh = [pc |-> "call", signal1 |-> signal1, signal2 |-> signal2,
                 sampleRate |-> sampleRate, windowSize |-> windowSize]
    /\ Quiet({"coh"})

coherenceRest == <<fftCall, bandCall, validate, butter, appVars,
                   zeroPhase, alias, stats, montage, spectro,
                   response, cascade, bitrev, charts>>

\* welchPSD(signal, sampleRate, windowSize) is called
CallWelchPSD(signal) ==
    [pc |-> "call", signal |-> signal, sampleRate |-> coh.sampleRate,
     windowSize |-> coh.windowSize, overlap |-> Rat(1, 2), windowType |-> "hanning"]

\* const psd1 = this.welchPSD(signal1, ...): the call
CoherencePsd1 ==
    /\ coh.pc = "call"
    /\ welch' = CallWelchPSD(coh.signal1)
    /\ coh' = [coh EXCEPT !.pc = "psd1"]
    /\ UNCHANGED coherenceRest

\* psd1 is returned; const psd2 = this.welchPSD(signal2, ...): the call
CoherencePsd2 ==
    /\ coh.pc = "psd1" /\ welch.pc = "done"
    /\ welch' = CallWelchPSD(coh.signal2)
    /\ coh' = [pc |-> "psd2", psd1 |-> welch.result] @@ coh
    /\ UNCHANGED coherenceRest

\* psd2 is returned; n, step, numSegments, N, window, csdRe and csdIm
CoherenceCsd ==
    /\ coh.pc = "psd2" /\ welch.pc = "done"
    /\ welch' = Idle
    /\ \E n \in {IF Len(coh.signal1) < Len(coh.signal2)
                 THEN Len(coh.signal1) ELSE Len(coh.signal2)},
          step \in {CoherenceStep(coh.windowSize)}, N \in {nextPow2(coh.windowSize)} :
         coh' = [pc |-> "csd", psd2 |-> welch.result, n |-> n, step |-> step,
                 numSegments |-> WelchNumSegments(n, coh.windowSize, step),
                 N |-> N, window |-> getWindow(coh.windowSize, "hanning"),
                 csd |-> [re |-> Zeros(HalfBins(N)), im |-> Zeros(HalfBins(N))],
                 seg |-> 0] @@ coh
    /\ UNCHANGED coherenceRest

\* one iteration of "for (seg = 0; seg < numSegments; seg++)"; the model
\* follows at most MaxSegs iterations
CoherenceSegment ==
    /\ coh.pc = "csd"
    /\ FLt(Num(coh.seg), coh.numSegments)
    /\ coh.seg < MaxSegs
    /\ coh' = [coh EXCEPT
                 !.seg = coh.seg + 1,
                 !.csd = CoherenceSegmentStep(coh.csd, coh.signal1, coh.signal2,
                                              coh.seg * IntOf(coh.step), coh.window,
                                              coh.windowSize, coh.N)]
    /\ UNCHANGED <<welch, coherenceRest>>

\* the loop has ended: the coherence of each bin, and the return
CoherenceReturn ==
    /\ coh.pc = "csd"
    /\ ~FLt(Num(coh.seg), coh.numSegments)
    /\ coh' = [pc |-> "done",
               result |-> [freqs |-> coh.psd1.freqs,
                           coherence |-> CoherenceBins(coh.psd1, coh.psd2, coh.csd,
                                                       coh.numSegments)]] @@ coh
    /\ UNCHANGED <<welch, coherenceRest>>

SpecCoherence ==
    CoherenceInit /\ [][\/ CoherencePsd1 \/ CoherencePsd2 \/ CoherenceCsd
                        \/ CoherenceSegment \/ CoherenceReturn
                        \/ WelchPSD \/ WelchSegment \/ WelchReturn]_vars

\* PSD1[f] * PSD2[f] * numSegments^2, the denominator as the claim has it
DenominatorStated(i) ==
    FMul(FMul(At(coh.psd1.psd, i), At(coh.psd2.psd, i)),
         FMul(coh.numSegments, coh.numSegments))

\* C22: every bin of the coherence returned is finite; it is 0 where
\* PSD1[f]*PSD2[f]*numSegments^2 is 0, and |CSD[f]|^2 divided by that
\* denominator where the denominator is positive.
C22_CoherenceFinite ==
    coh.pc = "done" =>
        \A i \in 0..(Len(coh.result.coherence) - 1) :
           /\ isFinite(At(coh.result.coherence, i))
           /\ DenominatorStated(i) = Zero => At(coh.result.coherence, i) = Zero
           /\ FGt(DenominatorStated(i), Zero) =>
                 At(coh.result.coherence, i) =
                     FDiv(CsdMag2(coh.csd, i), DenominatorStated(i))

(***************************************************************************)
\* C23: after resetFilter, state.filteredData is null and stays null until
\* the next click on Apply: the step that follows a reset leaves it null
\* unless that step is applyFilter itself, also when a deferred filtering
\* step of an earlier click was pending at the reset.
C23_ResetStaysReset ==
    [][(last # Idle /\ last.op = "resetFilter" /\ last'.op # "applyFilter") =>
           state'.filteredData = Null]_vars

\* butterworth of every channel of a recording at its own sample rate, with
\* the parameters of a click on Apply
FilteredOf(eegData, t) ==
    [ch \in 1..Len(eegData.channelData) |->
        butterworth(eegData.channelData[ch], eegData.sampleRate, t.params.low,
                    t.params.high, t.params.order, t.filterType)]

\* C27: state.filteredData, when it is not null, belongs to the current
\* recording: a recording is loaded, it has one array per channel of it, and
\* a step that stores it stores butterworth of the channels of that recording
\* at the sample rate of that recording, while a step that keeps it keeps the
\* recording.
C27_FilteredOfCurrentRecording ==
    [][state'.filteredData # Null =>
           /\ state'.eegData # Null
           /\ Len(state'.filteredData.channels) = Len(state'.eegData.channelData)
           /\ state'.filteredData = state.filteredData => state'.eegData = state.eegData
           /\ last'.op = "applyFilterTimer" /\ last'.toast = "Filter applied to all channels" =>
                 state'.filteredData.channels = FilteredOf(state'.eegData, Head(timers))]_vars

\* C28: a deferred filtering step that succeeds stores the filter of its
\* click applied to the channels of the recording, whatever was filtered
\* before, and applyFilter, its callback, previewFilter and resetFilter leave
\* state.eegData as it was.
C28_FiltersDoNotCompose ==
    [][last'.op \in {"applyFilter", "applyFilterTimer", "previewFilter", "resetFilter"} =>
           /\ state'.eegData = state.eegData
           /\ last'.op = "applyFilterTimer" /\ last'.toast = "Filter applied to all channels" =>
                 state'.filteredData.channels =
                     [ch \in 1..Len(state.eegData.channelData) |->
                         butterworth(state.eegData.channelData[ch],
                                     Head(timers).sampleRate, Head(timers).params.low,
                                     Head(timers).params.high, Head(timers).params.order,
                                     Head(timers).filterType)]]_vars

\* a filter has been applied to the two channels of a recording and has
\* changed them, and a second click on Apply waits for its callback, which
\* will find this filtered result in the state
C28_Witness ==
    /\ last = [op |-> "applyFilterTimer", calls |-> 2,
               toast |-> "Filter applied to all channels"]
    /\ state.filteredData # Null
    /\ Len(timers) = 1
    /\ state.filteredData.channels # state.eegData.channelData

(***************************************************************************)
(* butterworth and _biquadCascade, statement by statement, for the orders  *)
(* 1 to 8.  The coefficients of most of these sections lie outside the     *)
(* numbers of the model, so a sample is followed not by its value but by   *)
(* the index it had in the input and the number of biquad passes it has    *)
(* been through: _applyBiquad is causal and fills out[i] from signal[0..i],*)
(* so it leaves every sample at its index, and data.reverse() moves it.    *)
(* Every pass and every reversal is written to a log.                      *)
(***************************************************************************)
CascadeOrders == 1..8
CascadeTypes == {"bandpass", "highpass", "lowpass"}

\* the slip of Math.floor(order / 2)
numSectionsFloor(order) == order \div 2

\* const numSections = Math.ceil(order / 2)
numSections(order) == (order + 1) \div 2

\* _applyBiquad on the samples as followed here: a new array of the same
\* length, out[i] in the place of signal[i]
Passed(data) ==
    [i \in 1..Len(data) |-> [origin |-> data[i].origin, passes |-> data[i].passes + 1]]

CascadeInit ==
    /\ cascade \in
          {[pc |-> "butterworth", n |-> n, order |-> order, type |-> type,
            stages |-> Stages(Cutoffs(Num(8), cuts[1], cuts[2], type).low,
                              Cutoffs(Num(8), cuts[1], cuts[2], type).high,
                              order, type),
            stage |-> 1, section |-> 0,
            data |-> [i \in 1..n |-> [origin |-> i - 1, passes |-> 0]],
            log |-> <<>>] :
              n \in 0..MaxSamples, order \in CascadeOrders, type \in CascadeTypes,
              cuts \in {<<One, Num(2)>>, <<Num(2), One>>}}
    /\ Quiet({"cascade"})

cascadeRest == <<fftCall, welch, bandCall, validate, butter, appVars, zeroPhase,
                 alias, stats, montage, spectro, response, coh, bitrev, charts>>

\* filtered = this._biquadCascade(filtered, ...): let data = new
\* Float64Array(signal), and the loop starts at section 0
CascadeCall ==
    /\ cascade.pc = "butterworth"
    /\ cascade.stage <= Len(cascade.stages)
    /\ cascade' = [cascade EXCEPT !.pc = "section", !.section = 0]
    /\ UNCHANGED cascadeRest

\* section < numSections: data = this._applyBiquad(data, coeffs)
CascadeForward ==
    /\ cascade.pc = "section"
    /\ cascade.section < numSections(cascade.stages[cascade.stage].order)
    /\ cascade' = [cascade EXCEPT
                     !.pc = "forward",
                     !.data = Passed(cascade.data),
                     !.log = Append(cascade.log,
                                    [op |-> "pass", stage |-> cascade.stages[cascade.stage],
                                     section |-> cascade.section])]
    /\ UNCHANGED cascadeRest

\* data = data.reverse(), after either pass; after the second the loop goes
\* to the next section
CascadeReverse ==
    /\ cascade.pc \in {"forward", "backward"}
    /\ cascade' = [cascade EXCEPT
                     !.pc = IF cascade.pc = "forward" THEN "reversed" ELSE "section",
                     !.section = IF cascade.pc = "forward" THEN @ ELSE @ + 1,
                     !.data = Reverse(cascade.data),
                     !.log = Append(cascade.log,
                                    [op |-> "reverse", stage |-> cascade.stages[cascade.stage],
                                     section |-> cascade.section])]
    /\ UNCHANGED cascadeRest

\* data = this._applyBiquad(data, coeffs), on the reversed data
CascadeBackward ==
    /\ cascade.pc = "reversed"
    /\ cascade' = [cascade EXCEPT
                     !.pc = "backward",
                     !.data = Passed(cascade.data),
                     !.log = Append(cascade.log,
                                    [op |-> "pass", stage |-> cascade.stages[cascade.stage],
                                     section |-> cascade.section])]
    /\ UNCHANGED cascadeRest

\* the loop of _biquadCascade ends: return data, to the next stage of butterworth
CascadeReturn ==
    /\ cascade.pc = "section"
    /\ cascade.section >= numSections(cascade.stages[cascade.stage].order)
    /\ cascade' = [cascade EXCEPT !.pc = "butterworth", !.stage = @ + 1]
    /\ UNCHANGED cascadeRest

\* butterworth: return filtered
CascadeDone ==
    /\ cascade.pc = "butterworth"
    /\ cascade.stage > Len(cascade.stages)
    /\ cascade' = [cascade EXCEPT !.pc = "done"]
    /\ UNCHANGED cascadeRest

SpecCascade ==
    CascadeInit /\ [][CascadeCall \/ CascadeForward \/ CascadeReverse \/ CascadeBackward
                      \/ CascadeReturn \/ CascadeDone]_vars

\* ceil(order / 2), as the least k with 2k >= order
CeilHalf(order) == CHOOSE k \in 0..order : 2 * k >= order /\ \A l \in 0..(k - 1) : 2 * l < order

\* the log of one cascade: for each section in increasing order a pass, a
\* reversal, a pass, a reversal
RECURSIVE CascadeLog(_, _)
CascadeLog(stage, section) ==
    IF section >= CeilHalf(stage.order) THEN <<>>
    ELSE <<[op |-> "pass", stage |-> stage, section |-> section],
           [op |-> "reverse", stage |-> stage, section |-> section],
           [op |-> "pass", stage |-> stage, section |-> section],
           [op |-> "reverse", stage |-> stage, section |-> section]>>
         \o CascadeLog(stage, section + 1)

\* the stages the claim names: for bandpass the highpass at the lower cutoff,
\* then the lowpass at the higher one
StagesStated ==
    LET hp == [stage |-> "highpass", freq |-> One, order |-> cascade.order]
        lp == [stage |-> "lowpass", freq |-> Num(2), order |-> cascade.order]
    IN  CASE cascade.type = "bandpass" -> <<hp, lp>>
          [] cascade.type = "highpass" -> <<[hp EXCEPT !.freq = cascade.stages[1].freq]>>
          [] OTHER -> <<[lp EXCEPT !.freq = cascade.stages[1].freq]>>

PassesIn(log) == Cardinality({i \in 1..Len(log) : log[i].op = "pass"})

\* C24: butterworth returns after, for each of its stages in order (for
\* bandpass the whole highpass cascade at the low cutoff, then the whole
\* lowpass cascade at the high cutoff), ceil(order/2) sections in increasing
\* order, each a pass, a reversal, a pass and a reversal: 2*ceil(order/2)
\* passes to a cascade; the output has the length of the input and every
\* sample is back at the index it had.
C24_CascadePasses ==
    cascade.pc = "done" =>
        /\ cascade.log =
              IF Len(StagesStated) = 2
              THEN CascadeLog(StagesStated[1], 0) \o CascadeLog(StagesStated[2], 0)
              ELSE CascadeLog(StagesStated[1], 0)
        /\ PassesIn(cascade.log) = 2 * CeilHalf(cascade.order) * Len(StagesStated)
        /\ Len(cascade.data) = cascade.n
        /\ \A i \in 1..cascade.n :
              cascade.data[i] = [origin |-> i - 1, passes |-> PassesIn(cascade.log)]

\* a bandpass of order 5 is through: three sections to each of its two
\* cascades, twelve passes, on a signal of three samples
C24_Witness ==
    /\ cascade.pc = "done"
    /\ cascade.type = "bandpass" /\ cascade.order = 5 /\ cascade.n = 3
    /\ PassesIn(cascade.log) = 12
    /\ cascade.data[1].origin = 0

(***************************************************************************)
(* The bit reversal of _fftRecursive, statement by statement, on buffers   *)
(* of N = 1, 2, ... 2^MaxLogN entries that hold their own indices, so that *)
(* the place every entry ends at can be read off.  The pass is then run a  *)
(* second time on what the first left.                                     *)
(***************************************************************************)
MaxLogN == 4

\* the slip of swapping at either index of a pair
SwapGuardEither(i, j) == j # i

\* if (j > i)
SwapGuard(i, j) == j > i

BitrevInit ==
    /\ bitrev \in {[pc |-> "for", N |-> Pow2(k), bits |-> k, i |-> 0, j |-> 0, m |-> 0,
                    re |-> [x \in 1..Pow2(k) |-> x - 1],
                    im |-> [x \in 1..Pow2(k) |-> Pow2(k) + x - 1],
                    swaps |-> <<>>, round |-> 1] : k \in 0..MaxLogN}
    /\ Quiet({"bitrev"})

bitrevRest == <<fftCall, welch, bandCall, validate, butter, appVars, zeroPhase,
                alias, stats, montage, spectro, response, coh, cascade, charts>>

\* i < N: if (j > i) swap re[i], re[j] and im[i], im[j]; let m = N >> 1
BitrevSwap ==
    /\ bitrev.pc = "for"
    /\ bitrev.i < bitrev.N
    /\ bitrev' = IF SwapGuard(bitrev.i, bitrev.j)
                 THEN [bitrev EXCEPT
                         !.pc = "while", !.m = bitrev.N \div 2,
                         !.re = Swap(bitrev.re, bitrev.i, bitrev.j),
                         !.im = Swap(bitrev.im, bitrev.i, bitrev.j),
                         !.swaps = Append(@, <<bitrev.i, bitrev.j>>)]
                 ELSE [bitrev EXCEPT !.pc = "while", !.m = bitrev.N \div 2]
    /\ UNCHANGED bitrevRest

\* while (m >= 1 && j >= m) { j -= m; m >>= 1; }
BitrevWhile ==
    /\ bitrev.pc = "while"
    /\ bitrev.m >= 1 /\ bitrev.j >= bitrev.m
    /\ bitrev' = [bitrev EXCEPT !.j = bitrev.j - bitrev.m, !.m = bitrev.m \div 2]
    /\ UNCHANGED bitrevRest

\* the while loop ends: j += m, and i++
BitrevAdd ==
    /\ bitrev.pc = "while"
    /\ ~(bitrev.m >= 1 /\ bitrev.j >= bitrev.m)
    /\ bitrev' = [bitrev EXCEPT !.pc = "for", !.j = bitrev.j + bitrev.m,
                                !.i = bitrev.i + 1]
    /\ UNCHANGED bitrevRest

\* the for loop ends; the pass is entered once more on the same buffers,
\* with let j = 0 and i = 0, and after that the run is over
BitrevEnd ==
    /\ bitrev.pc = "for"
    /\ bitrev.i >= bitrev.N
    /\ bitrev' = IF bitrev.round = 1
                 THEN [bitrev EXCEPT !.round = 2, !.i = 0, !.j = 0, !.swaps = <<>>]
                 ELSE [bitrev EXCEPT !.pc = "done"]
    /\ UNCHANGED bitrevRest

SpecBitrev ==
    BitrevInit /\ [][BitrevSwap \/ BitrevWhile \/ BitrevAdd \/ BitrevEnd]_vars

\* the index whose bits are the lowest bits of i in reverse order
RECURSIVE ReverseBits(_, _)
ReverseBits(i, bits) ==
    IF bits = 0 THEN 0
    ELSE (i % 2) * Pow2(bits - 1) + ReverseBits(i \div 2, bits - 1)

\* the for loop of a pass has run to its end
PassOver == bitrev.pc = "for" /\ bitrev.i >= bitrev.N

\* C25: in the bit reversal of a buffer of N = 2^bits entries, i and j are
\* indices of the buffer whenever they are used, j being the reversal of the
\* bits of i; at the end of the first pass the entry that was at index i is at
\* the reversal of i, in re and in im, and every pair of distinct indices that
\* are reversals of each other has been swapped exactly once, no other pair
\* at all; at the end of the second pass every entry is where it started.
C25_BitReversal ==
    bitrev.pc # "idle" =>
        /\ bitrev.j \in 0..(bitrev.N - 1)
        /\ bitrev.pc = "while" => bitrev.i \in 0..(bitrev.N - 1)
        /\ (bitrev.pc = "for" /\ ~PassOver) =>
              /\ bitrev.i \in 0..(bitrev.N - 1)
              /\ bitrev.j = ReverseBits(bitrev.i, bitrev.bits)
        /\ (PassOver /\ bitrev.round = 1) =>
              /\ \A i \in 0..(bitrev.N - 1) :
                    /\ bitrev.re[ReverseBits(i, bitrev.bits) + 1] = i
                    /\ bitrev.im[ReverseBits(i, bitrev.bits) + 1] = bitrev.N + i
              /\ \A i, j \in 0..(bitrev.N - 1) :
                    Cardinality({s \in 1..Len(bitrev.swaps) :
                                    bitrev.swaps[s] \in {<<i, j>>, <<j, i>>}})
                        = IF i # j /\ j = ReverseBits(i, bitrev.bits) THEN 1 ELSE 0
        /\ ((PassOver /\ bitrev.round = 2) \/ bitrev.pc = "done") =>
              \A i \in 0..(bitrev.N - 1) :
                  bitrev.re[i + 1] = i /\ bitrev.im[i + 1] = bitrev.N + i

\* the first pass over 8 entries is over: 1 and 4, 3 and 6 have changed places
C25_Witness ==
    /\ PassOver /\ bitrev.round = 1 /\ bitrev.N = 8
    /\ bitrev.swaps = <<<<1, 4>>, <<3, 6>>>>
    /\ bitrev.re = <<0, 4, 2, 6, 1, 5, 3, 7>>

(***************************************************************************)
\* the angle pi*(2*section + 1)/(2*order) of a section, in turns
SectionAngle(section, order) == Rat(2 * section + 1, 4 * order)

\* a section of _biquadCascade is being applied
SectionRunning == cascade.pc \in {"forward", "reversed", "backward"}

\* C26: for the orders 2 to 8, every section index k that _biquadCascade
\* runs has 2k + 1 < order, and its angle is strictly below a quarter of a
\* turn (pi/2), where the cosine is positive and Q = 1/(2*cos(angle)) is
\* finite and positive.
C26_SectionAngleBelowQuarter ==
    (SectionRunning /\ cascade.order \in 2..8) =>
        /\ 2 * cascade.section + 1 < cascade.order
        /\ FLt(SectionAngle(cascade.section, cascade.order), Rat(1, 4))

(***************************************************************************)
(* The band power tab of the App: a recording of 1 to MaxChannels channels *)
(* is loaded, channels are ticked and unticked in the channel list, the    *)
(* band powers are computed and the display type of the chart is changed.  *)
(* The bands computed from channel chIdx are followed as the record        *)
(* [channel |-> chIdx].                                                    *)
(***************************************************************************)
ChannelNames == <<"Fp1", "Fp2", "F3", "F4", "C3">>

\* the ascending array of the indices in S
RECURSIVE Ascending(_)
Ascending(S) ==
    IF S = {} THEN <<>>
    ELSE LET least == CHOOSE x \in S : \A y \in S : x <= y
         IN  <<least>> \o Ascending(S \ {least})

Elements(arr) == {arr[k] : k \in 1..Len(arr)}

\* Array.from({ length: channelLabels.length }, (_, i) => i)
AllChannels(numChannels) == [k \in 1..numChannels |-> k - 1]

\* the change handler of a checkbox of buildChannelList: the new selection
ToggleChannel(selectedChannels, idx, checked) ==
    IF checked
    THEN IF idx \in Elements(selectedChannels) THEN selectedChannels
         ELSE Ascending(Elements(selectedChannels) \cup {idx})
    ELSE SelectSeq(selectedChannels, LAMBDA i : i # idx)

\* selectedChannels.length > 0 ? selectedChannels : [0], as
\* renderBandPowerCharts reads it
ChartChannels(selectedChannels) ==
    IF Len(selectedChannels) > 0 THEN selectedChannels ELSE <<0>>

\* renderBandPowerCharts: what createBandPowerChart is handed
renderBandPowerCharts(c) ==
    [labels |-> [k \in 1..Len(ChartChannels(c.selectedChannels)) |->
                    c.channelLabels[ChartChannels(c.selectedChannels)[k] + 1]],
     bandPowers |-> c.bandPowers.entries]

\* loadFile / loadSampleData and initializeDashboard: every channel is
\* selected and analysisResults is emptied; the chart drawn before stays
Loaded(numChannels, chart) ==
    [pc |-> "loaded", channelLabels |-> SubSeq(ChannelNames, 1, numChannels),
     selectedChannels |-> AllChannels(numChannels), bandPowers |-> Null,
     chart |-> chart, rendered |-> FALSE]

ChartsInit ==
    /\ charts \in {Loaded(numChannels, Null) : numChannels \in 1..MaxChannels}
    /\ Quiet({"charts"})

chartsRest == <<fftCall, welch, bandCall, validate, butter, appVars, zeroPhase,
                alias, stats, montage, spectro, response, coh, cascade, bitrev>>

ChartsLoadFile ==
    /\ \E numChannels \in 1..MaxChannels :
          charts' = Loaded(numChannels, charts.chart)
    /\ UNCHANGED chartsRest

\* a checkbox of the channel list is ticked or unticked
ChartsToggle ==
    /\ \E idx \in 0..(Len(charts.channelLabels) - 1) :
          charts' = [charts EXCEPT
                       !.selectedChannels =
                           ToggleChannel(@, idx, idx \notin Elements(@)),
                       !.rendered = FALSE]
    /\ UNCHANGED chartsRest

\* the buttons that select every channel and none
ChartsSelectAll ==
    /\ charts' = [charts EXCEPT
                    !.selectedChannels = AllChannels(Len(charts.channelLabels)),
                    !.rendered = FALSE]
    /\ UNCHANGED chartsRest

ChartsSelectNone ==
    /\ charts' = [charts EXCEPT !.selectedChannels = <<>>, !.rendered = FALSE]
    /\ UNCHANGED chartsRest

\* App.computeBandPowers: one entry per selected channel (channel 0 when none
\* is selected), stored, and the charts are rendered
ChartsCompute ==
    /\ \E computed \in
          {[charts EXCEPT
              !.bandPowers =
                  [entries |->
                      [k \in 1..Len(ChartChannels(charts.selectedChannels)) |->
                          [channel |-> ChartChannels(charts.selectedChannels)[k]]]]]} :
          charts' = [computed EXCEPT !.chart = renderBandPowerCharts(computed),
                                     !.rendered = TRUE]
    /\ UNCHANGED chartsRest

\* the change handler of the display type: renders if band powers are there
ChartsDisplayChange ==
    /\ charts' = IF charts.bandPowers # Null
                 THEN [charts EXCEPT !.chart = renderBandPowerCharts(charts),
                                     !.rendered = TRUE]
                 ELSE [charts EXCEPT !.rendered = FALSE]
    /\ UNCHANGED chartsRest

SpecCharts ==
    ChartsInit /\ [][ChartsLoadFile \/ ChartsToggle \/ ChartsSelectAll \/ ChartsSelectNone
                     \/ ChartsCompute \/ ChartsDisplayChange]_vars

\* C29: when renderBandPowerCharts has just run, the labels handed to the
\* chart are as many as the entries of state.analysisResults.bandPowers, and
\* label i is the label of the channel entry i was computed from.
C29_LabelsMatchBandPowers ==
    (charts.pc = "loaded" /\ charts.rendered) =>
        /\ Len(charts.chart.labels) = Len(charts.chart.bandPowers)
        /\ \A i \in 1..Len(charts.chart.labels) :
              i <= Len(charts.chart.bandPowers) =>
                  charts.chart.labels[i] =
                      charts.channelLabels[charts.chart.bandPowers[i].channel + 1]

(***************************************************************************)
(* welchPSD, coherence and computeSpectrogram side by side: any one of the *)
(* three is called, and its loop over the segments or frames is followed.  *)
(***************************************************************************)
SegmentsInit == WelchInit \/ CoherenceInit \/ SpectroInit

SpecSegments ==
    SegmentsInit /\ [][\/ WelchPSD \/ WelchSegment \/ WelchReturn
                       \/ CoherencePsd1 \/ CoherencePsd2 \/ CoherenceCsd
                       \/ CoherenceSegment \/ CoherenceReturn
                       \/ ComputeSpectrogram \/ SpectrogramFrame
                       \/ SpectrogramReturn]_vars

\* the indices signal[start + i], 0 <= i < windowSize, that the pass of the
\* loop with the given count has read, for start = count * step
IndicesRead(count, step, windowSize) ==
    {count * IntOf(step) + i : i \in 0..(windowSize - 1)}

\* C30: with n >= windowSize and step >= 1, every index start + i that a
\* segment of welchPSD, a segment of coherence (n the length of the shorter
\* signal) or a frame of computeSpectrogram has read is at most n - 1.
C30_ReadsWithinSignal ==
    /\ (welch.pc = "loop" /\ welch.seg >= 1 /\ FGe(welch.step, One)
        /\ Len(welch.signal) >= welch.windowSize) =>
           \A idx \in IndicesRead(welch.seg - 1, welch.step, welch.windowSize) :
               idx \in 0..(Len(welch.signal) - 1)
    /\ (coh.pc = "csd" /\ coh.seg >= 1 /\ FGe(coh.step, One)
        /\ coh.n >= coh.windowSize) =>
           \A idx \in IndicesRead(coh.seg - 1, coh.step, coh.windowSize) :
               /\ idx \in 0..(coh.n - 1)
               /\ idx < Len(coh.signal1) /\ idx < Len(coh.signal2)
    /\ (spectro.pc = "frames" /\ spectro.frame >= 1 /\ FGe(spectro.step, One)
        /\ Len(spectro.signal) >= spectro.windowSize) =>
           \A idx \in IndicesRead(spectro.frame - 1, spectro.step, spectro.windowSize) :
               idx \in 0..(Len(spectro.signal) - 1)

\* the third segment of welchPSD on 4 samples, with a window of 2 and a step
\* of 1, has read the last sample of the signal
C30_Witness ==
    /\ welch.pc = "loop" /\ welch.seg = 3
    /\ Len(welch.signal) = 4 /\ welch.windowSize = 2 /\ welch.step = One
    /\ Len(welch.signal) - 1 \in IndicesRead(welch.seg - 1, welch.step, welch.windowSize)

====
